---- MODULE Spec2Model ----
(***************************************************************************)
(* A model of the privilege-escalation bridge: the expectation validator,  *)
(* the path resolver, the bundle reader/writer and the consume entrypoint. *)
(*                                                                         *)
(* JavaScript strings are sequences of one-character strings, so that      *)
(* split/trim/regex tests are computed rather than assumed.  JSON values   *)
(* are tagged records; an object is the sequence of its own enumerable     *)
(* <<key, value>> entries in insertion order.                              *)
(***************************************************************************)
EXTENDS Integers, Sequences, FiniteSets, TLC

VARIABLES
  vMeta,      \* validator: the meta argument
  vExp,       \* validator: the expectations argument
  vResult,    \* validator: "pending", or the outcome of the call
  pValue,     \* path resolver: the value argument
  pPath,      \* path resolver: the pathSpec argument
  pResult,    \* path resolver: Pending, or what getByPath returned
  bIn,        \* bundle: the producer's inputs
  bOutputs,   \* bundle: Pending, or how parseAndMergeOutputs ended
  bRoot,      \* bundle: the root directory on disk
  bWrite,     \* bundle: Pending, or how writeBridgeDirectory ended
  bRead,      \* bundle: Pending, or how readBridgeDirectory ended
  cIn,        \* consume run: action inputs, environment and the source run's artifacts
  cPc,        \* consume run: the stage run() is about to execute
  cBridge,    \* consume run: what downloadBridgeArtifact returned
  cLog,       \* consume run: the setOutput / exportVariable calls made, in order
  cDest,      \* consume run: the restore destination directory
  cTemp,      \* consume run: the scratch extraction directory
  cCalls,     \* consume run: the requests and bridge calls made so far, in order
  cError,     \* consume run: the error run() ended with
  fIn,        \* a library function called on its own: the arguments
  fOut,       \* a library function called on its own: Pending, or how the call ended
  eIn,        \* emit run: action inputs, environment, event payload and working directory
  ePc,        \* emit run: the stage run() is about to execute
  eOutputs,   \* emit run: the outputs map parseAndMergeOutputs returned
  eMeta,      \* emit run: the meta record buildBridgeMeta returned
  eRoot,      \* emit run: the staging directory
  eCalls,     \* emit run: the bridge calls and the upload made so far, in order
  eLog,       \* emit run: the setOutput calls made, in order
  eError      \* emit run: the error run() ended with

validateVars == <<vMeta, vExp, vResult>>
pathVars == <<pValue, pPath, pResult>>
bundleVars == <<bIn, bOutputs, bRoot, bWrite, bRead>>
consumeVars == <<cIn, cPc, cBridge, cLog, cDest, cTemp, cCalls, cError>>
funVars == <<fIn, fOut>>
emitVars == <<eIn, ePc, eOutputs, eMeta, eRoot, eCalls, eLog, eError>>
vars == <<vMeta, vExp, vResult, pValue, pPath, pResult,
          bIn, bOutputs, bRoot, bWrite, bRead,
          cIn, cPc, cBridge, cLog, cDest, cTemp, cCalls, cError,
          fIn, fOut, eIn, ePc, eOutputs, eMeta, eRoot, eCalls, eLog, eError>>

\* A variable no action of the running specification uses.
Unused == [t |-> "unused"]
\* A call that has not been made yet.
Pending == [t |-> "pending"]
ValidateIdle == vMeta = Unused /\ vExp = Unused /\ vResult = "unused"
PathIdle == pValue = Unused /\ pPath = Unused /\ pResult = Unused
BundleIdle ==
  bIn = Unused /\ bOutputs = Unused /\ bRoot = Unused /\ bWrite = Unused /\ bRead = Unused
ConsumeIdle ==
  /\ cIn = Unused /\ cPc = "unused" /\ cBridge = Unused /\ cLog = <<>>
  /\ cDest = Unused /\ cTemp = "unused" /\ cCalls = <<>> /\ cError = Unused
FunIdle == fIn = Unused /\ fOut = Unused
EmitIdle ==
  /\ eIn = Unused /\ ePc = "unused" /\ eOutputs = Unused /\ eMeta = Unused
  /\ eRoot = Unused /\ eCalls = <<>> /\ eLog = <<>> /\ eError = Unused

----------------------------------------------------------------------------
(* Property names and literal texts used by the code.                      *)

S_schema_version == <<"s", "c", "h", "e", "m", "a", "_", "v", "e", "r", "s", "i", "o", "n">>
S_repository == <<"r", "e", "p", "o", "s", "i", "t", "o", "r", "y">>
S_workflow_name == <<"w", "o", "r", "k", "f", "l", "o", "w", "_", "n", "a", "m", "e">>
S_workflow_run_id == <<"w", "o", "r", "k", "f", "l", "o", "w", "_", "r", "u", "n", "_", "i", "d">>
S_workflow_run_attempt == <<"w", "o", "r", "k", "f", "l", "o", "w", "_", "r", "u", "n", "_", "a", "t", "t", "e", "m", "p", "t">>
S_event_name == <<"e", "v", "e", "n", "t", "_", "n", "a", "m", "e">>
S_head_sha == <<"h", "e", "a", "d", "_", "s", "h", "a">>
S_created_at == <<"c", "r", "e", "a", "t", "e", "d", "_", "a", "t">>
S_pr_number == <<"p", "r", "_", "n", "u", "m", "b", "e", "r">>
S_event == <<"e", "v", "e", "n", "t">>
S_outputs == <<"o", "u", "t", "p", "u", "t", "s">>
S_meta == <<"m", "e", "t", "a">>
S_undefined == <<"u", "n", "d", "e", "f", "i", "n", "e", "d">>
S_Infinity == <<"I", "n", "f", "i", "n", "i", "t", "y">>
S_null == <<"n", "u", "l", "l">>
S_true == <<"t", "r", "u", "e">>
S_false == <<"f", "a", "l", "s", "e">>
S___proto__ == <<"_", "_", "p", "r", "o", "t", "o", "_", "_">>
S_constructor == <<"c", "o", "n", "s", "t", "r", "u", "c", "t", "o", "r">>
S_toString == <<"t", "o", "S", "t", "r", "i", "n", "g">>
S_valueOf == <<"v", "a", "l", "u", "e", "O", "f">>
S_hasOwnProperty == <<"h", "a", "s", "O", "w", "n", "P", "r", "o", "p", "e", "r", "t", "y">>
S_objectObject == <<"[", "o", "b", "j", "e", "c", "t", " ", "O", "b", "j", "e", "c", "t", "]">>

----------------------------------------------------------------------------
(* JavaScript values.                                                      *)

Undefined == [t |-> "undefined"]
Null == [t |-> "null"]
Str(s) == [t |-> "string", s |-> s]
Num(n) == [t |-> "number", n |-> n]
\* The number a JSON literal beyond the range of a double parses to
Infinity == [t |-> "number", infinite |-> TRUE]
Bool(b) == [t |-> "boolean", b |-> b]
Arr(items) == [t |-> "array", items |-> items]
Obj(entries) == [t |-> "object", entries |-> entries]
\* A function object (Object.prototype's methods) and Object.prototype itself:
\* what a property read can reach through the prototype chain of a parsed object.
Fn == [t |-> "function"]
ObjectPrototype == [t |-> "objproto"]

\* typeof v
TypeOf(v) ==
  IF v.t \in {"null", "array", "object", "objproto"} THEN "object" ELSE v.t

\* Array.isArray(v)
IsArray(v) == v.t = "array"

\* The own property names of Object.prototype (those the model distinguishes).
ObjectPrototypeKeys ==
  {S___proto__, S_constructor, S_toString, S_valueOf, S_hasOwnProperty}

\* Object.prototype[k]: the __proto__ accessor yields null there, the rest are methods.
ProtoGet(k) ==
  IF k = S___proto__ THEN Null
  ELSE IF k \in ObjectPrototypeKeys THEN Fn
  ELSE Undefined

HasOwn(o, k) == o.t = "object" /\ \E i \in DOMAIN o.entries : o.entries[i][1] = k

GetOwn(o, k) ==
  LET i == CHOOSE j \in DOMAIN o.entries : o.entries[j][1] = k
  IN  o.entries[i][2]

\* The prototype of an object: Object.prototype unless an assignment to
\* __proto__ replaced it (then the object carries a proto field).
ProtoOf(o) == IF "proto" \in DOMAIN o THEN o.proto ELSE ObjectPrototype

\* k in o, for o an object (own properties, then the prototype chain).  An
\* array met on the chain contributes Object.prototype's names only.
RECURSIVE In(_, _)
In(k, o) ==
  CASE o.t = "objproto" -> k \in ObjectPrototypeKeys
    [] o.t = "object" -> HasOwn(o, k) \/ In(k, ProtoOf(o))
    [] o.t = "array" -> k \in ObjectPrototypeKeys
    [] OTHER -> FALSE

\* o[k]: own property, else the prototype chain.
RECURSIVE Get(_, _)
Get(o, k) ==
  CASE o.t = "objproto" -> ProtoGet(k)
    [] o.t = "object" ->
         IF HasOwn(o, k) THEN GetOwn(o, k)
         ELSE IF ~In(k, ProtoOf(o)) THEN Undefined
         ELSE IF k = S___proto__ THEN ProtoOf(o)
         ELSE Get(ProtoOf(o), k)
    [] o.t = "array" -> ProtoGet(k)
    [] OTHER -> Undefined

\* A canonical array-index property name ("0", "7", "12", not "01").
IsArrayIndexKey(k) ==
  /\ k # <<>>
  /\ \A i \in DOMAIN k : k[i] \in {"0", "1", "2", "3", "4", "5", "6", "7", "8", "9"}
  /\ Len(k) = 1 \/ k[1] # "0"

RECURSIVE IndexKeyValue(_)
IndexKeyValue(k) ==
  IF k = <<>> THEN 0
  ELSE 10 * IndexKeyValue(SubSeq(k, 1, Len(k) - 1))
       + ((CHOOSE d \in 0..9 : <<"0", "1", "2", "3", "4", "5", "6", "7", "8", "9">>[d + 1] = k[Len(k)]))

\* Defining an own data property (object literals, spread, JSON.parse): an
\* existing key keeps its place; a new array-index key goes among the index
\* keys in ascending order, which own-property enumeration lists first; any
\* other new key goes last.
DefineProperty(o, k, v) ==
  IF HasOwn(o, k)
    THEN [o EXCEPT !.entries = [i \in DOMAIN o.entries |->
                                  IF o.entries[i][1] = k THEN <<k, v>> ELSE o.entries[i]]]
  ELSE IF IsArrayIndexKey(k)
    THEN LET before == {i \in DOMAIN o.entries :
                          /\ IsArrayIndexKey(o.entries[i][1])
                          /\ IndexKeyValue(o.entries[i][1]) < IndexKeyValue(k)}
             n == Cardinality(before)
         IN  [o EXCEPT !.entries = SubSeq(o.entries, 1, n) \o << <<k, v>> >>
                                     \o SubSeq(o.entries, n + 1, Len(o.entries))]
  ELSE [o EXCEPT !.entries = Append(o.entries, <<k, v>>)]

\* o[k] = v.  Assigning to __proto__ runs Object.prototype's setter when the
\* object has no own property of that name and inherits the accessor: an object
\* or null value replaces the prototype, any other value is ignored.
AssignProperty(o, k, v) ==
  IF k = S___proto__ /\ ~HasOwn(o, k) /\ In(k, ProtoOf(o))
    THEN IF v.t \in {"object", "array", "null", "objproto"}
           THEN [t |-> "object", entries |-> o.entries, proto |-> v]
           ELSE o
    ELSE DefineProperty(o, k, v)

\* Object.entries(o)
Entries(o) == o.entries

\* isScalar(value)
isScalar(v) == v.t = "null" \/ TypeOf(v) \in {"string", "number", "boolean"}

Digit(d) == <<"0", "1", "2", "3", "4", "5", "6", "7", "8", "9">>[d + 1]

RECURSIVE NatToString(_)
NatToString(n) ==
  IF n < 10 THEN <<Digit(n)>> ELSE NatToString(n \div 10) \o <<Digit(n % 10)>>

RECURSIVE JoinStrings(_, _)
JoinStrings(parts, sep) ==
  IF parts = <<>> THEN <<>>
  ELSE IF Len(parts) = 1 THEN parts[1]
  ELSE parts[1] \o sep \o JoinStrings(Tail(parts), sep)

\* String(v)
RECURSIVE String(_)
String(v) ==
  CASE v.t = "undefined" -> S_undefined
    [] v.t = "null" -> S_null
    [] v.t = "string" -> v.s
    [] v.t = "number" ->
         IF v = Infinity THEN S_Infinity
         ELSE IF v.n < 0 THEN <<"-">> \o NatToString(-v.n) ELSE NatToString(v.n)
    [] v.t = "boolean" -> IF v.b THEN S_true ELSE S_false
    [] v.t = "array" ->
         JoinStrings([i \in DOMAIN v.items |->
                        IF v.items[i].t \in {"null", "undefined"} THEN <<>>
                        ELSE String(v.items[i])], <<",">>)
    [] OTHER -> S_objectObject

----------------------------------------------------------------------------
(* bridge.ts: validateConsumerExpectations.  The outcome is "ok" or the     *)
(* error the call throws.  An optional expectation that is not supplied is *)
(* a field missing from the expectations record.                           *)

OK == "ok"

Supplied(e, f) == f \in DOMAIN e

\* JavaScript truthiness of an optional string field
TruthyField(e, f) == Supplied(e, f) /\ e[f] # <<>>

\* requireEvents.includes(v)
Includes(list, v) == \E i \in DOMAIN list : Str(list[i]) = v

validateConsumerExpectations_NoSha(meta, expectations) ==
  IF Get(meta, S_repository) # Str(expectations.repository) THEN "Repository mismatch"
  ELSE IF Get(meta, S_workflow_run_id) # Str(expectations.runId) THEN "Run mismatch"
  ELSE IF TruthyField(expectations, "runAttempt")
          /\ Get(meta, S_workflow_run_attempt) # Str(expectations.runAttempt)
    THEN "Run attempt mismatch"
  ELSE IF TruthyField(expectations, "sourceWorkflow")
          /\ Get(meta, S_workflow_name) # Str(expectations.sourceWorkflow)
    THEN "Workflow mismatch"
  ELSE IF TruthyField(expectations, "expectedPrNumber")
          /\ String(Get(meta, S_pr_number)) # expectations.expectedPrNumber
    THEN "PR mismatch"
  ELSE IF Supplied(expectations, "requireEvents")
          /\ Len(expectations.requireEvents) > 0
          /\ ~Includes(expectations.requireEvents, Get(meta, S_event_name))
    THEN "Source event not allowed"
  ELSE OK

validateConsumerExpectations_ShaFirst(meta, expectations) ==
  IF TruthyField(expectations, "expectedHeadSha")
     /\ Get(meta, S_head_sha) # Str(expectations.expectedHeadSha)
    THEN "Head SHA mismatch"
  ELSE validateConsumerExpectations_NoSha(meta, expectations)

\* validateConsumerExpectations with a check of created_at after the bindings
validateConsumerExpectations_Fresh(meta, expectations) ==
  IF Get(meta, S_repository) # Str(expectations.repository) THEN "Repository mismatch"
  ELSE IF Get(meta, S_workflow_run_id) # Str(expectations.runId) THEN "Run mismatch"
  ELSE IF TruthyField(expectations, "runAttempt")
          /\ Get(meta, S_workflow_run_attempt) # Str(expectations.runAttempt)
    THEN "Run attempt mismatch"
  ELSE IF TruthyField(expectations, "sourceWorkflow")
          /\ Get(meta, S_workflow_name) # Str(expectations.sourceWorkflow)
    THEN "Workflow mismatch"
  ELSE IF TruthyField(expectations, "expectedHeadSha")
          /\ Get(meta, S_head_sha) # Str(expectations.expectedHeadSha)
    THEN "Head SHA mismatch"
  ELSE IF TruthyField(expectations, "expectedPrNumber")
          /\ String(Get(meta, S_pr_number)) # expectations.expectedPrNumber
    THEN "PR mismatch"
  ELSE IF Supplied(expectations, "requireEvents")
          /\ Len(expectations.requireEvents) > 0
          /\ ~Includes(expectations.requireEvents, Get(meta, S_event_name))
    THEN "Source event not allowed"
  ELSE IF Get(meta, S_created_at) = Undefined THEN "Stale bundle"
  ELSE OK

validateConsumerExpectations(meta, expectations) ==
  IF Get(meta, S_repository) # Str(expectations.repository) THEN "Repository mismatch"
  ELSE IF Get(meta, S_workflow_run_id) # Str(expectations.runId) THEN "Run mismatch"
  ELSE IF TruthyField(expectations, "runAttempt")
          /\ Get(meta, S_workflow_run_attempt) # Str(expectations.runAttempt)
    THEN "Run attempt mismatch"
  ELSE IF TruthyField(expectations, "sourceWorkflow")
          /\ Get(meta, S_workflow_name) # Str(expectations.sourceWorkflow)
    THEN "Workflow mismatch"
  ELSE IF TruthyField(expectations, "expectedHeadSha")
          /\ Get(meta, S_head_sha) # Str(expectations.expectedHeadSha)
    THEN "Head SHA mismatch"
  ELSE IF TruthyField(expectations, "expectedPrNumber")
          /\ String(Get(meta, S_pr_number)) # expectations.expectedPrNumber
    THEN "PR mismatch"
  ELSE IF Supplied(expectations, "requireEvents")
          /\ Len(expectations.requireEvents) > 0
          /\ ~Includes(expectations.requireEvents, Get(meta, S_event_name))
    THEN "Source event not allowed"
  ELSE OK

----------------------------------------------------------------------------
(* JavaScript string operations used by the path resolver and the parsers. *)

WhiteSpace == {" ", "\t", "\n", "\r"}

RECURSIVE TrimStart(_)
TrimStart(s) == IF s # <<>> /\ Head(s) \in WhiteSpace THEN TrimStart(Tail(s)) ELSE s

RECURSIVE TrimEnd(_)
TrimEnd(s) ==
  IF s # <<>> /\ s[Len(s)] \in WhiteSpace THEN TrimEnd(SubSeq(s, 1, Len(s) - 1)) ELSE s

\* s.trim()
Trim(s) == TrimEnd(TrimStart(s))

\* s.includes(c) for a one-character c
Contains(s, c) == \E i \in DOMAIN s : s[i] = c

\* s.split(c) for a one-character separator c
RECURSIVE Split(_, _)
Split(s, c) ==
  IF ~Contains(s, c) THEN <<s>>
  ELSE LET i == CHOOSE j \in DOMAIN s : s[j] = c /\ \A k \in 1..(j - 1) : s[k] # c
       IN  <<SubSeq(s, 1, i - 1)>> \o Split(SubSeq(s, i + 1, Len(s)), c)

\* list.map((part) => part.trim()).filter(Boolean)
TrimAndFilter(list) ==
  SelectSeq([i \in DOMAIN list |-> Trim(list[i])], LAMBDA part : part # <<>>)

DecimalDigits == <<"0", "1", "2", "3", "4", "5", "6", "7", "8", "9">>
HexDigitsLower == DecimalDigits \o <<"a", "b", "c", "d", "e", "f">>
HexDigitsUpper == DecimalDigits \o <<"A", "B", "C", "D", "E", "F">>

Range(seq) == {seq[i] : i \in DOMAIN seq}

DigitValue(c) ==
  IF c \in Range(HexDigitsLower)
    THEN (CHOOSE i \in DOMAIN HexDigitsLower : HexDigitsLower[i] = c) - 1
    ELSE (CHOOSE i \in DOMAIN HexDigitsUpper : HexDigitsUpper[i] = c) - 1

\* A non-empty run of digits of the given radix
IsDigits(s, radix) ==
  /\ s # <<>>
  /\ \A i \in DOMAIN s :
       /\ s[i] \in Range(HexDigitsLower) \cup Range(HexDigitsUpper)
       /\ DigitValue(s[i]) < radix

RECURSIVE DigitsValue(_, _)
DigitsValue(s, radix) ==
  IF s = <<>> THEN 0
  ELSE DigitsValue(SubSeq(s, 1, Len(s) - 1), radix) * radix + DigitValue(s[Len(s)])

RECURSIVE Pow10(_)
Pow10(k) == IF k = 0 THEN 1 ELSE 10 * Pow10(k - 1)

\* The result of Number(text) as far as the resolver reads it: whether it is an
\* integer (Number.isInteger) and, if so, which.  -0 is the integer 0.
IntegerResult(n) == [isInteger |-> TRUE, n |-> n]
NotAnInteger == [isInteger |-> FALSE, n |-> 0]

\* digits, or digits e [sign] digits
UnsignedDecimal(s) ==
  LET es == {i \in DOMAIN s : s[i] \in {"e", "E"}}
  IN  IF es = {} THEN (IF IsDigits(s, 10) THEN IntegerResult(DigitsValue(s, 10)) ELSE NotAnInteger)
      ELSE LET i == CHOOSE j \in es : \A k \in es : j <= k
               mant == SubSeq(s, 1, i - 1)
               rest == SubSeq(s, i + 1, Len(s))
               signed == rest # <<>> /\ rest[1] \in {"+", "-"}
               expo == IF signed THEN Tail(rest) ELSE rest
           IN  IF ~IsDigits(mant, 10) \/ ~IsDigits(expo, 10) THEN NotAnInteger
               ELSE IF signed /\ rest[1] = "-"
                 THEN IF DigitsValue(mant, 10) % Pow10(DigitsValue(expo, 10)) = 0
                        THEN IntegerResult(DigitsValue(mant, 10) \div Pow10(DigitsValue(expo, 10)))
                        ELSE NotAnInteger
                 ELSE IntegerResult(DigitsValue(mant, 10) * Pow10(DigitsValue(expo, 10)))

\* Number(text) for a text without '.', which a path segment never contains:
\* an empty text is 0; 0x/0o/0b literals; a signed decimal with an optional
\* exponent; anything else (including Infinity) is not an integer.
Number(text) ==
  LET s == Trim(text)
      radixOf == [c \in {"x", "X", "o", "O", "b", "B"} |->
                    IF c \in {"x", "X"} THEN 16 ELSE IF c \in {"o", "O"} THEN 8 ELSE 2]
  IN  IF s = <<>> THEN IntegerResult(0)
      ELSE IF Len(s) >= 2 /\ s[1] = "0" /\ s[2] \in DOMAIN radixOf
        THEN IF IsDigits(SubSeq(s, 3, Len(s)), radixOf[s[2]])
               THEN IntegerResult(DigitsValue(SubSeq(s, 3, Len(s)), radixOf[s[2]]))
               ELSE NotAnInteger
      ELSE IF s[1] = "-"
        THEN LET u == UnsignedDecimal(Tail(s))
             IN  IF u.isInteger THEN IntegerResult(-u.n) ELSE NotAnInteger
      ELSE IF s[1] = "+" THEN UnsignedDecimal(Tail(s))
      ELSE UnsignedDecimal(s)

----------------------------------------------------------------------------
(* bridge.ts: getByPath.                                                   *)

\* pathSpec.split('.').map((part) => part.trim()).filter(Boolean)
PathParts(pathSpec) == TrimAndFilter(Split(pathSpec, "."))

\* pathSpec.split('|').map((part) => part.trim()).filter(Boolean)
Candidates(pathSpec) == TrimAndFilter(Split(pathSpec, "|"))

\* The walk with an array index accepted only when written in decimal digits
RECURSIVE Walk_DigitsOnly(_, _)
Walk_DigitsOnly(current, parts) ==
  IF parts = <<>> THEN current
  ELSE IF current.t \in {"null", "undefined"} THEN Undefined
  ELSE IF IsArray(current)
    THEN LET index == Number(Head(parts))
         IN  IF ~IsDigits(Head(parts), 10) \/ index.n >= Len(current.items)
               THEN Undefined
               ELSE Walk_DigitsOnly(current.items[index.n + 1], Tail(parts))
  ELSE IF TypeOf(current) # "object" THEN Undefined
  ELSE IF ~In(Head(parts), current) THEN Undefined
  ELSE Walk_DigitsOnly(Get(current, Head(parts)), Tail(parts))

\* The loop over the parts: the value reached, or Undefined when a step fails.
RECURSIVE Walk(_, _)
Walk(current, parts) ==
  IF parts = <<>> THEN current
  ELSE IF current.t \in {"null", "undefined"} THEN Undefined
  ELSE IF IsArray(current)
    THEN LET index == Number(Head(parts))
         IN  IF ~index.isInteger \/ index.n < 0 \/ index.n >= Len(current.items)
               THEN Undefined
               ELSE Walk(current.items[index.n + 1], Tail(parts))
  ELSE IF TypeOf(current) # "object" THEN Undefined
  ELSE IF ~In(Head(parts), current) THEN Undefined
  ELSE Walk(Get(current, Head(parts)), Tail(parts))

TerminalValue_Any(current) == current

\* The check after the loop: only a scalar is returned.
TerminalValue(current) ==
  IF current.t = "null" \/ TypeOf(current) \in {"string", "number", "boolean"}
    THEN current
    ELSE Undefined

\* The simple form: a pathSpec without '|'.
ResolveSimple(value, pathSpec) ==
  LET parts == PathParts(pathSpec)
  IN  IF Len(parts) = 0 THEN Undefined ELSE TerminalValue(Walk(value, parts))

RECURSIVE getByPath(_, _)

RECURSIVE FirstFound_SkipNull(_, _)
FirstFound_SkipNull(value, candidates) ==
  IF candidates = <<>> THEN Undefined
  ELSE LET found == ResolveSimple(value, Head(candidates))
       IN  IF found \notin {Undefined, Null} THEN found
           ELSE FirstFound_SkipNull(value, Tail(candidates))

\* for (const candidate of candidates) { found = getByPath(value, candidate); ... }
RECURSIVE FirstFound(_, _)
FirstFound(value, candidates) ==
  IF candidates = <<>> THEN Undefined
  ELSE LET found == getByPath(value, Head(candidates))
       IN  IF found # Undefined THEN found ELSE FirstFound(value, Tail(candidates))

getByPath(value, pathSpec) ==
  IF Contains(pathSpec, "|")
    THEN FirstFound(value, Candidates(pathSpec))
    ELSE ResolveSimple(value, pathSpec)

----------------------------------------------------------------------------
(* JSON text.  A text is the sequence of its tokens: the lexical layer      *)
(* (white space, indentation, string escapes) is not modelled, the grammar *)
(* is.  JSON.stringify and JSON.parse are computed over tokens.            *)

Punct(c) == [k |-> "punct", c |-> c]
TStr(s) == [k |-> "string", s |-> s]
TNum(n) == [k |-> "number", n |-> n]
TLit(name) == [k |-> "literal", name |-> name]
\* A number literal beyond the range of a double, such as 1e999
THuge == [k |-> "number", huge |-> TRUE]

\* JSON.stringify(v) for a value that is not undefined or a function
RECURSIVE JSONstringify(_)
JSONstringify(v) ==
  CASE v.t = "null" -> <<TLit("null")>>
    [] v.t = "boolean" -> <<TLit(IF v.b THEN "true" ELSE "false")>>
    [] v.t = "number" -> IF v = Infinity THEN <<TLit("null")>> ELSE <<TNum(v.n)>>
    [] v.t = "string" -> <<TStr(v.s)>>
    [] v.t = "array" ->
         <<Punct("[")>>
         \o JoinStrings([i \in DOMAIN v.items |->
                           IF v.items[i].t \in {"undefined", "function"}
                             THEN <<TLit("null")>>
                             ELSE JSONstringify(v.items[i])], <<Punct(",")>>)
         \o <<Punct("]")>>
    [] OTHER ->
         LET own == IF v.t = "object" THEN v.entries ELSE <<>>
             kept == SelectSeq(own, LAMBDA e : e[2].t \notin {"undefined", "function"})
         IN  <<Punct("{")>>
             \o JoinStrings([i \in DOMAIN kept |->
                               <<TStr(kept[i][1]), Punct(":")>> \o JSONstringify(kept[i][2])],
                            <<Punct(",")>>)
             \o <<Punct("}")>>

ParseFail == [ok |-> FALSE]
Parsed(v, next) == [ok |-> TRUE, v |-> v, next |-> next]

RECURSIVE ParseValue(_, _)
RECURSIVE ParseMembers(_, _, _)
RECURSIVE ParseElements(_, _, _)

\* member (',' member)* '}' from token i on; acc holds the members read so far.
\* A repeated key keeps its first place and takes the last value.
ParseMembers(toks, i, acc) ==
  IF i + 1 > Len(toks) \/ toks[i].k # "string" \/ toks[i + 1] # Punct(":") THEN ParseFail
  ELSE LET r == ParseValue(toks, i + 2)
       IN  IF ~r.ok \/ r.next > Len(toks) THEN ParseFail
           ELSE IF toks[r.next] = Punct("}")
             THEN Parsed(DefineProperty(acc, toks[i].s, r.v), r.next + 1)
           ELSE IF toks[r.next] = Punct(",")
             THEN ParseMembers(toks, r.next + 1, DefineProperty(acc, toks[i].s, r.v))
           ELSE ParseFail

\* value (',' value)* ']' from token i on
ParseElements(toks, i, acc) ==
  LET r == ParseValue(toks, i)
  IN  IF ~r.ok \/ r.next > Len(toks) THEN ParseFail
      ELSE IF toks[r.next] = Punct("]") THEN Parsed(Arr(Append(acc, r.v)), r.next + 1)
      ELSE IF toks[r.next] = Punct(",") THEN ParseElements(toks, r.next + 1, Append(acc, r.v))
      ELSE ParseFail

ParseValue(toks, i) ==
  IF i > Len(toks) THEN ParseFail
  ELSE LET tk == toks[i]
       IN  CASE tk.k = "string" -> Parsed(Str(tk.s), i + 1)
             [] tk.k = "number" -> Parsed(IF tk = THuge THEN Infinity ELSE Num(tk.n), i + 1)
             [] tk.k = "literal" ->
                  Parsed(IF tk.name = "null" THEN Null ELSE Bool(tk.name = "true"), i + 1)
             [] tk = Punct("{") ->
                  IF i + 1 <= Len(toks) /\ toks[i + 1] = Punct("}")
                    THEN Parsed(Obj(<<>>), i + 2)
                    ELSE ParseMembers(toks, i + 1, Obj(<<>>))
             [] tk = Punct("[") ->
                  IF i + 1 <= Len(toks) /\ toks[i + 1] = Punct("]")
                    THEN Parsed(Arr(<<>>), i + 2)
                    ELSE ParseElements(toks, i + 1, <<>>)
             [] OTHER -> ParseFail

\* JSON.parse(text): [ok |-> FALSE] stands for the SyntaxError
JSONparse(text) ==
  LET r == ParseValue(text, 1)
  IN  IF r.ok /\ r.next = Len(text) + 1 THEN [ok |-> TRUE, v |-> r.v] ELSE ParseFail

----------------------------------------------------------------------------
(* schema.ts.  A function that can throw returns [ok |-> TRUE, v |-> ...]  *)
(* or [ok |-> FALSE, error |-> <message kind>, about |-> <its subject>].   *)

SCHEMA_VERSION == 2

\* The one element of a singleton set: a value computed once and then named.
TheOne(S) == CHOOSE x \in S : TRUE

Return(v) == [ok |-> TRUE, v |-> v]
Throw(error, about) == [ok |-> FALSE, error |-> error, about |-> about]
\* What an error message names: a JSON source label, or a key / field / path.
Label(l) == [label |-> l]
Name(k) == [name |-> k]

Letters ==
  {"a", "b", "c", "d", "e", "f", "g", "h", "i", "j", "k", "l", "m",
   "n", "o", "p", "q", "r", "s", "t", "u", "v", "w", "x", "y", "z",
   "A", "B", "C", "D", "E", "F", "G", "H", "I", "J", "K", "L", "M",
   "N", "O", "P", "Q", "R", "S", "T", "U", "V", "W", "X", "Y", "Z"}

\* OUTPUT_KEY_RE.test(key): /^[A-Za-z_][A-Za-z0-9_]*$/
OUTPUT_KEY_RE(key) ==
  /\ key # <<>>
  /\ key[1] \in Letters \cup {"_"}
  /\ \A i \in 2..Len(key) : key[i] \in Letters \cup Range(DecimalDigits) \cup {"_"}

\* JavaScript falsiness (!v)
Falsy(v) ==
  \/ v.t \in {"undefined", "null"}
  \/ v = Bool(FALSE)
  \/ v = Num(0)
  \/ v = Str(<<>>)

parseJsonObject(raw, label) ==
  TheOne({ IF ~parsed.ok THEN Throw("must be valid JSON", Label(label))
           ELSE IF Falsy(parsed.v) \/ TypeOf(parsed.v) # "object" \/ IsArray(parsed.v)
             THEN Throw("must be a JSON object", Label(label))
           ELSE Return(parsed.v)
           : parsed \in {JSONparse(raw)} })

\* The loop of normalizeOutputs over Object.entries(input), from entry i on.
RECURSIVE normalizeFrom(_, _, _, _)
normalizeFrom(entries, i, out, sanitize) ==
  IF i > Len(entries) THEN Return(out)
  ELSE LET key == entries[i][1]
           value == entries[i][2]
       IN  IF sanitize = "strict" /\ ~OUTPUT_KEY_RE(key) THEN Throw("Invalid output key", Name(key))
           ELSE IF sanitize = "strict" /\ ~isScalar(value)
             THEN Throw("Output must be a scalar value", Name(key))
           ELSE normalizeFrom(entries, i + 1, AssignProperty(out, key, value), sanitize)

normalizeOutputs(input, sanitize) == normalizeFrom(Entries(input), 1, Obj(<<>>), sanitize)

RequiredMetaFields ==
  <<S_schema_version, S_repository, S_workflow_name, S_workflow_run_id,
    S_workflow_run_attempt, S_event_name, S_head_sha, S_created_at>>

StringMetaFields ==
  <<S_repository, S_workflow_name, S_workflow_run_id,
    S_workflow_run_attempt, S_event_name, S_head_sha, S_created_at>>

\* The first index at which a sequence of flags holds TRUE, or 0
FirstIndex(flags) ==
  IF \E i \in DOMAIN flags : flags[i]
    THEN CHOOSE i \in DOMAIN flags : flags[i] /\ \A j \in 1..(i - 1) : ~flags[j]
    ELSE 0

\* validateMeta with the version compared before presence is checked
validateMeta_VersionFirst(meta) ==
  LET missing == FirstIndex([i \in DOMAIN RequiredMetaFields |->
                               ~In(RequiredMetaFields[i], meta)])
      badString == FirstIndex([i \in DOMAIN StringMetaFields |->
                                 \/ TypeOf(Get(meta, StringMetaFields[i])) # "string"
                                 \/ Falsy(Get(meta, StringMetaFields[i]))])
  IN  IF Get(meta, S_schema_version) # Num(SCHEMA_VERSION)
        THEN Throw("Unsupported schema_version", Name(String(Get(meta, S_schema_version))))
      ELSE IF missing # 0 THEN Throw("Missing required meta field", Name(RequiredMetaFields[missing]))
      ELSE IF badString # 0 THEN Throw("Invalid meta field", Name(StringMetaFields[badString]))
      ELSE IF Get(meta, S_pr_number) # Undefined /\ TypeOf(Get(meta, S_pr_number)) # "number"
        THEN Throw("meta.pr_number must be a number when provided", Name(S_pr_number))
      ELSE IF Get(meta, S_event) # Undefined
              /\ (\/ Falsy(Get(meta, S_event))
                  \/ TypeOf(Get(meta, S_event)) # "object"
                  \/ IsArray(Get(meta, S_event)))
        THEN Throw("meta.event must be an object when provided", Name(S_event))
      ELSE Return(meta)

\* validateMeta without the check of Array.isArray(meta.event)
validateMeta_ArrayEvent(meta) ==
  LET missing == FirstIndex([i \in DOMAIN RequiredMetaFields |->
                               ~In(RequiredMetaFields[i], meta)])
      badString == FirstIndex([i \in DOMAIN StringMetaFields |->
                                 \/ TypeOf(Get(meta, StringMetaFields[i])) # "string"
                                 \/ Falsy(Get(meta, StringMetaFields[i]))])
  IN  IF missing # 0 THEN Throw("Missing required meta field", Name(RequiredMetaFields[missing]))
      ELSE IF Get(meta, S_schema_version) # Num(SCHEMA_VERSION)
        THEN Throw("Unsupported schema_version", Name(String(Get(meta, S_schema_version))))
      ELSE IF badString # 0 THEN Throw("Invalid meta field", Name(StringMetaFields[badString]))
      ELSE IF Get(meta, S_pr_number) # Undefined /\ TypeOf(Get(meta, S_pr_number)) # "number"
        THEN Throw("meta.pr_number must be a number when provided", Name(S_pr_number))
      ELSE IF Get(meta, S_event) # Undefined
              /\ (\/ Falsy(Get(meta, S_event))
                  \/ TypeOf(Get(meta, S_event)) # "object")
        THEN Throw("meta.event must be an object when provided", Name(S_event))
      ELSE Return(meta)

validateMeta(meta) ==
  LET missing == FirstIndex([i \in DOMAIN RequiredMetaFields |->
                               ~In(RequiredMetaFields[i], meta)])
      badString == FirstIndex([i \in DOMAIN StringMetaFields |->
                                 \/ TypeOf(Get(meta, StringMetaFields[i])) # "string"
                                 \/ Falsy(Get(meta, StringMetaFields[i]))])
  IN  IF missing # 0 THEN Throw("Missing required meta field", Name(RequiredMetaFields[missing]))
      ELSE IF Get(meta, S_schema_version) # Num(SCHEMA_VERSION)
        THEN Throw("Unsupported schema_version", Name(String(Get(meta, S_schema_version))))
      ELSE IF badString # 0 THEN Throw("Invalid meta field", Name(StringMetaFields[badString]))
      ELSE IF Get(meta, S_pr_number) # Undefined /\ TypeOf(Get(meta, S_pr_number)) # "number"
        THEN Throw("meta.pr_number must be a number when provided", Name(S_pr_number))
      ELSE IF Get(meta, S_event) # Undefined
              /\ (\/ Falsy(Get(meta, S_event))
                  \/ TypeOf(Get(meta, S_event)) # "object"
                  \/ IsArray(Get(meta, S_event)))
        THEN Throw("meta.event must be an object when provided", Name(S_event))
      ELSE Return(meta)

----------------------------------------------------------------------------
(* node:path (POSIX) as writeBridgeDirectory uses it.                      *)

\* path.isAbsolute(p)
isAbsolute(p) == p # <<>> /\ p[1] = "/"

StartsWith(s, prefix) == Len(s) >= Len(prefix) /\ SubSeq(s, 1, Len(prefix)) = prefix

DotDot == <<".", ".">>

RECURSIVE normalizeSegments(_, _, _)
normalizeSegments(segments, acc, allowAboveRoot) ==
  IF segments = <<>> THEN acc
  ELSE LET segment == Head(segments)
       IN  IF segment = <<>> \/ segment = <<".">>
             THEN normalizeSegments(Tail(segments), acc, allowAboveRoot)
           ELSE IF segment = DotDot
             THEN IF acc # <<>> /\ acc[Len(acc)] # DotDot
                    THEN normalizeSegments(Tail(segments), SubSeq(acc, 1, Len(acc) - 1), allowAboveRoot)
                  ELSE IF allowAboveRoot
                    THEN normalizeSegments(Tail(segments), Append(acc, segment), allowAboveRoot)
                  ELSE normalizeSegments(Tail(segments), acc, allowAboveRoot)
           ELSE normalizeSegments(Tail(segments), Append(acc, segment), allowAboveRoot)

\* path.normalize(p)
normalize(p) ==
  IF p = <<>> THEN <<".">>
  ELSE LET absolute == isAbsolute(p)
           trailing == p[Len(p)] = "/"
           body == JoinStrings(normalizeSegments(Split(p, "/"), <<>>, ~absolute), <<"/">>)
       IN  IF body = <<>>
             THEN IF absolute THEN <<"/">> ELSE IF trailing THEN <<".", "/">> ELSE <<".">>
             ELSE (IF absolute THEN <<"/">> ELSE <<>>) \o body \o (IF trailing THEN <<"/">> ELSE <<>>)

\* path.resolve(p) for a relative p, as a path below the working directory
\* (no trailing separator; <<>> is the working directory itself).
resolveInCwd(p) ==
  JoinStrings(normalizeSegments(Split(p, "/"), <<>>, TRUE), <<"/">>)

----------------------------------------------------------------------------
(* bridge.ts: the bundle on disk.  A root directory holds bridge/meta.json, *)
(* bridge/outputs.json and the bridge/files tree.                          *)

NoFile == [exists |-> FALSE]
FileWith(text) == [exists |-> TRUE, text |-> text]

\* bridge/files: absent, something that is not a directory, or a directory
\* mapping relative paths to file contents.
NoDir == [kind |-> "absent"]
NotADir == [kind |-> "file"]
Dir(files) == [kind |-> "dir", files |-> files]
NoFiles == <<>>

EmptyRoot == [meta |-> NoFile, outputs |-> NoFile, filesDir |-> NoDir]

\* { ...b, ...a }: the spread with the sources in the other order
Spread_FileWins(a, b) ==
  LET all == Entries(b) \o Entries(a)
      F[i \in 0..Len(all)] ==
        IF i = 0 THEN Obj(<<>>) ELSE DefineProperty(F[i - 1], all[i][1], all[i][2])
  IN  F[Len(all)]

\* { ...a, ...b }
Spread(a, b) ==
  LET all == Entries(a) \o Entries(b)
      F[i \in 0..Len(all)] ==
        IF i = 0 THEN Obj(<<>>) ELSE DefineProperty(F[i - 1], all[i][1], all[i][2])
  IN  F[Len(all)]

\* A text source of parseAndMergeOutputs as an object: {} for the empty text.
parseSource(text, label) ==
  IF text # <<>> THEN parseJsonObject(text, label) ELSE Return(Obj(<<>>))

\* The argument parseAndMergeOutputs hands to normalizeOutputs, or the error of
\* the source that failed to parse (the file source is parsed first).
mergedSources(outputJson, outputFileJson) ==
  TheOne({ IF ~fromFile.ok THEN fromFile
           ELSE IF ~fromInput.ok THEN fromInput
           ELSE Return(Spread(fromFile.v, fromInput.v))
           : fromFile \in {parseSource(outputFileJson, "outputs_file")},
             fromInput \in {parseSource(outputJson, "outputs")} })

parseAndMergeOutputs(outputJson, outputFileJson, sanitize) ==
  TheOne({ IF ~merged.ok THEN merged ELSE normalizeOutputs(merged.v, sanitize)
           : merged \in {mergedSources(outputJson, outputFileJson)} })

\* The loop of writeBridgeDirectory without the test of the normalized path
RECURSIVE copyFiles_NoEscapeTest(_, _, _, _)
copyFiles_NoEscapeTest(root, files, i, workspace) ==
  IF i > Len(files) THEN [root |-> root, result |-> Return(Undefined)]
  ELSE LET filePath == files[i]
           normalized == normalize(filePath)
           absolute == resolveInCwd(filePath)
       IN  IF isAbsolute(filePath)
             THEN [root |-> root,
                   result |-> Throw("files entries must be relative paths", Name(filePath))]
           ELSE IF absolute \notin DOMAIN workspace
             THEN [root |-> root, result |-> Throw("cp failed", Name(filePath))]
           ELSE copyFiles_NoEscapeTest(
                  [root EXCEPT !.filesDir =
                     Dir((normalized :> workspace[absolute]) @@ root.filesDir.files)],
                  files, i + 1, workspace)

\* The loop of writeBridgeDirectory with the copies made so far removed when an
\* entry is refused
RECURSIVE copyFiles_DiscardOnRefusal(_, _, _, _)
copyFiles_DiscardOnRefusal(root, files, i, workspace) ==
  IF i > Len(files) THEN [root |-> root, result |-> Return(Undefined)]
  ELSE LET filePath == files[i]
           normalized == normalize(filePath)
           absolute == resolveInCwd(filePath)
           emptied == [root EXCEPT !.filesDir = Dir(NoFiles)]
       IN  IF isAbsolute(filePath)
             THEN [root |-> emptied,
                   result |-> Throw("files entries must be relative paths", Name(filePath))]
           ELSE IF StartsWith(normalized, DotDot)
             THEN [root |-> emptied,
                   result |-> Throw("files entry may not escape workspace", Name(filePath))]
           ELSE IF absolute \notin DOMAIN workspace
             THEN [root |-> emptied, result |-> Throw("cp failed", Name(filePath))]
           ELSE copyFiles_DiscardOnRefusal(
                  [root EXCEPT !.filesDir =
                     Dir((normalized :> workspace[absolute]) @@ root.filesDir.files)],
                  files, i + 1, workspace)

\* The loop of writeBridgeDirectory over files, from entry i on.  workspace maps
\* the paths of the regular files below the working directory to their
\* contents; copying anything else fails in cp.
RECURSIVE copyFiles(_, _, _, _)
copyFiles(root, files, i, workspace) ==
  IF i > Len(files) THEN [root |-> root, result |-> Return(Undefined)]
  ELSE LET filePath == files[i]
           normalized == normalize(filePath)
           absolute == resolveInCwd(filePath)
       IN  IF isAbsolute(filePath)
             THEN [root |-> root,
                   result |-> Throw("files entries must be relative paths", Name(filePath))]
           ELSE IF StartsWith(normalized, DotDot)
             THEN [root |-> root,
                   result |-> Throw("files entry may not escape workspace", Name(filePath))]
           ELSE IF absolute \notin DOMAIN workspace
             THEN [root |-> root, result |-> Throw("cp failed", Name(filePath))]
           ELSE copyFiles([root EXCEPT !.filesDir =
                             Dir((normalized :> workspace[absolute]) @@ root.filesDir.files)],
                          files, i + 1, workspace)

\* writeBridgeDirectory(rootDir, outputs, meta, files): the directory as the
\* call leaves it, and how the call ended.
writeBridgeDirectory(root, outputs, meta, files, workspace) ==
  LET written == [meta |-> FileWith(JSONstringify(meta)),
                  outputs |-> FileWith(JSONstringify(outputs)),
                  filesDir |-> IF root.filesDir.kind = "dir" THEN root.filesDir ELSE Dir(NoFiles)]
  IN  copyFiles(written, files, 1, workspace)

ReadSanitizeMode_None == "none"

\* The sanitize mode readBridgeDirectory passes to normalizeOutputs.
ReadSanitizeMode == "strict"

\* readBridgeDirectory with outputs.json read and normalized before meta.json
readBridgeDirectory_OutputsFirst(root) ==
  IF ~root.outputs.exists THEN Throw("ENOENT", Label("outputs.json"))
  ELSE LET parsed == parseJsonObject(root.outputs.text, "outputs.json")
           outputs == IF parsed.ok
                        THEN normalizeOutputs(parsed.v, "strict")
                        ELSE parsed
       IN  IF ~outputs.ok THEN outputs
           ELSE IF ~root.meta.exists THEN Throw("ENOENT", Label("meta.json"))
           ELSE LET meta == parseJsonObject(root.meta.text, "meta.json")
                IN  IF ~meta.ok THEN meta
                    ELSE IF ~validateMeta(meta.v).ok THEN validateMeta(meta.v)
                    ELSE Return([outputs |-> outputs.v, meta |-> meta.v,
                                 filesDir |-> root.filesDir])

readBridgeDirectory(root) ==
  IF ~root.meta.exists THEN Throw("ENOENT", Label("meta.json"))
  ELSE LET meta == parseJsonObject(root.meta.text, "meta.json")
       IN  IF ~meta.ok THEN meta
           ELSE IF ~validateMeta(meta.v).ok THEN validateMeta(meta.v)
           ELSE IF ~root.outputs.exists THEN Throw("ENOENT", Label("outputs.json"))
           ELSE LET parsed == parseJsonObject(root.outputs.text, "outputs.json")
                    outputs == IF parsed.ok
                                 THEN normalizeOutputs(parsed.v, ReadSanitizeMode)
                                 ELSE parsed
                IN  IF ~outputs.ok THEN outputs
                    ELSE Return([outputs |-> outputs.v, meta |-> meta.v,
                                 filesDir |-> root.filesDir])

\* restoreBridgeFiles with the destination created before the source is examined
restoreBridgeFiles_CreateFirst(filesDir, destination, io) ==
  IF ~io.statOk
    THEN [dest |-> destination, result |-> Throw("stat failed", Label("bridge/files"))]
  ELSE IF destination.kind = "file"
    THEN [dest |-> destination, result |-> Throw("mkdir failed", Label("destination"))]
  ELSE LET existing == IF destination.kind = "dir" THEN destination.files ELSE NoFiles
           copied == [f \in io.copied |-> filesDir.files[f]]
       IN  IF filesDir.kind # "dir"
             THEN [dest |-> Dir(existing), result |-> Return(FALSE)]
             ELSE [dest |-> Dir(copied @@ existing),
                   result |-> IF io.cpOk THEN Return(TRUE)
                              ELSE Throw("cp failed", Label("bridge/files"))]

\* restoreBridgeFiles(filesDir, destination): the destination as the call
\* leaves it, and how the call ended.  io is what the file system did: whether
\* stat failed for a reason other than ENOENT, whether cp completed, and which
\* files cp had copied when it stopped.
restoreBridgeFiles(filesDir, destination, io) ==
  IF ~io.statOk
    THEN [dest |-> destination, result |-> Throw("stat failed", Label("bridge/files"))]
  ELSE IF filesDir.kind # "dir"
    THEN [dest |-> destination, result |-> Return(FALSE)]
  ELSE IF destination.kind = "file"
    THEN [dest |-> destination, result |-> Throw("mkdir failed", Label("destination"))]
  ELSE LET existing == IF destination.kind = "dir" THEN destination.files ELSE NoFiles
           copied == [f \in io.copied |-> filesDir.files[f]]
       IN  [dest |-> Dir(copied @@ existing),
            result |-> IF io.cpOk THEN Return(TRUE)
                       ELSE Throw("cp failed", Label("bridge/files"))]

\* What the file system can do during restoreBridgeFiles(filesDir, ...).
RestoreOutcomes(filesDir) ==
  LET files == IF filesDir.kind = "dir" THEN DOMAIN filesDir.files ELSE {}
  IN  {[statOk |-> FALSE, cpOk |-> FALSE, copied |-> {}],
       [statOk |-> TRUE, cpOk |-> TRUE, copied |-> files]}
      \cup {[statOk |-> TRUE, cpOk |-> FALSE, copied |-> c] : c \in SUBSET files \ {files}}

\* raw.split(/\r?\n/)
SplitLines(raw) ==
  LET pieces == Split(raw, "\n")
  IN  [i \in DOMAIN pieces |->
         IF i < Len(pieces) /\ pieces[i] # <<>> /\ pieces[i][Len(pieces[i])] = "\r"
           THEN SubSeq(pieces[i], 1, Len(pieces[i]) - 1)
           ELSE pieces[i]]

\* line.indexOf(c)
IndexOf(line, c) ==
  IF Contains(line, c)
    THEN (CHOOSE j \in DOMAIN line : line[j] = c /\ \A k \in 1..(j - 1) : line[k] # c) - 1
    ELSE -1

\* The callback with every line that ends in '=' refused
parseExtractLine_EndsWithEq(line) ==
  LET idx == IndexOf(line, "=")
      name == Trim(SubSeq(line, 1, idx))
      sourcePath == Trim(SubSeq(line, idx + 2, Len(line)))
  IN  IF idx <= 0 \/ line[Len(line)] = "=" THEN Throw("Invalid extract mapping", Name(line))
      ELSE IF ~OUTPUT_KEY_RE(name) THEN Throw("Invalid extract output key", Name(name))
      ELSE Return([name |-> name, path |-> sourcePath])

\* The callback of lines.map in parseExtractMappings
parseExtractLine(line) ==
  LET idx == IndexOf(line, "=")
      name == Trim(SubSeq(line, 1, idx))
      sourcePath == Trim(SubSeq(line, idx + 2, Len(line)))
  IN  IF idx <= 0 \/ idx = Len(line) - 1 THEN Throw("Invalid extract mapping", Name(line))
      ELSE IF ~OUTPUT_KEY_RE(name) THEN Throw("Invalid extract output key", Name(name))
      ELSE IF sourcePath = <<>>
        THEN Throw("Invalid extract mapping: missing source path", Name(line))
      ELSE Return([name |-> name, path |-> sourcePath])

parseExtractMappings(raw) ==
  IF Trim(raw) = <<>> THEN Return(<<>>)
  ELSE LET lines == TrimAndFilter(SplitLines(raw))
           mapped == [i \in DOMAIN lines |-> parseExtractLine(lines[i])]
           bad == FirstIndex([i \in DOMAIN mapped |-> ~mapped[i].ok])
       IN  IF bad # 0 THEN mapped[bad] ELSE Return([i \in DOMAIN mapped |-> mapped[i].v])

\* parsePathList(raw): split on /\r?\n|,/
parsePathList(raw) ==
  IF Trim(raw) = <<>> THEN <<>>
  ELSE LET lines == SplitLines(raw)
           pieces == JoinStrings([i \in DOMAIN lines |-> Split(lines[i], ",")], <<>>)
       IN  TrimAndFilter(pieces)

----------------------------------------------------------------------------
(* Inputs of the validator specification.                                  *)

MaxEvents == 2

SeqsUpTo(S, n) == UNION {[1..k -> S] : k \in 0..n}

\* An optional argument: <<>> when not supplied, <<v>> when supplied as v.
Optional(S) == {<<>>} \cup {<<v>> : v \in S}

OptField(f, o) == IF o = <<>> THEN <<>> ELSE (f :> o[1])

RepoA == <<"o", "/", "r">>
RepoB == <<"x", "/", "r">>
RunA == <<"1", "2", "3">>
RunB == <<"1", "2", "4">>
AttemptA == <<"1">>
AttemptB == <<"2">>
WorkflowA == <<"W", "F">>
WorkflowB == <<"C", "I">>
ShaA == <<"a", "b", "c">>
ShaB == <<"b", "a", "d">>
EventA == <<"p", "u", "s", "h">>
EventB == <<"f", "o", "r", "k">>
CreatedA == <<"t", "0">>
Other == <<"z">>

\* A meta record as buildBridgeMeta lays it out; pr is an Optional number.
MkMeta(repo, run, attempt, workflow, sha, event, pr) ==
  Obj(<< <<S_schema_version, Num(SCHEMA_VERSION)>>,
         <<S_repository, Str(repo)>>,
         <<S_workflow_name, Str(workflow)>>,
         <<S_workflow_run_id, Str(run)>>,
         <<S_workflow_run_attempt, Str(attempt)>>,
         <<S_event_name, Str(event)>>,
         <<S_head_sha, Str(sha)>>,
         <<S_created_at, Str(CreatedA)>> >>
      \o (IF pr = <<>> THEN <<>> ELSE << <<S_pr_number, Num(pr[1])>> >>))

MkExpectations(repo, run, attempt, workflow, sha, pr, events) ==
  [repository |-> repo, runId |-> run]
    @@ OptField("runAttempt", attempt)
    @@ OptField("sourceWorkflow", workflow)
    @@ OptField("expectedHeadSha", sha)
    @@ OptField("expectedPrNumber", pr)
    @@ OptField("requireEvents", events)

PrNumbers == {0, 42}

ValidateMetas ==
  {MkMeta(RepoA, RunA, AttemptA, WorkflowA, ShaA, ev, pr) :
     ev \in {EventA, EventB}, pr \in Optional(PrNumbers)}

ValidateExpectations ==
  {MkExpectations(repo, run, attempt, workflow, sha, pr, events) :
     repo \in {RepoA, RepoB},
     run \in {RunA, RunB},
     attempt \in Optional({<<>>, AttemptA, AttemptB}),
     workflow \in Optional({WorkflowA, WorkflowB}),
     sha \in Optional({ShaA, ShaB}),
     pr \in Optional({<<>>, <<"0">>, <<"4", "2">>, S_undefined}),
     events \in Optional(SeqsUpTo({EventA, Other}, MaxEvents))}

----------------------------------------------------------------------------
(* The validator specification: the arguments are drawn in Init and one    *)
(* action applies validateConsumerExpectations to them.                    *)

ValidateInit ==
  /\ vMeta \in ValidateMetas
  /\ vExp \in ValidateExpectations
  /\ vResult = "pending"
  /\ PathIdle /\ BundleIdle /\ ConsumeIdle /\ FunIdle /\ EmitIdle

Validate ==
  /\ vResult = "pending"
  /\ vResult' = validateConsumerExpectations(vMeta, vExp)
  /\ UNCHANGED <<vMeta, vExp, pathVars, bundleVars, consumeVars, funVars, emitVars>>

ValidateNext == Validate

SpecValidate == ValidateInit /\ [][ValidateNext]_vars

----------------------------------------------------------------------------
(* Properties of the validator (checked under SpecValidate).               *)

Validated == vResult \notin {"pending", "unused"}

\* The seven bindings, as the specification words them.
BindingHolds(i, meta, e) ==
  CASE i = 1 -> Get(meta, S_repository) = Str(e.repository)
    [] i = 2 -> Get(meta, S_workflow_run_id) = Str(e.runId)
    [] i = 3 -> ("runAttempt" \in DOMAIN e /\ e.runAttempt # <<>>)
                  => Get(meta, S_workflow_run_attempt) = Str(e.runAttempt)
    [] i = 4 -> ("sourceWorkflow" \in DOMAIN e /\ e.sourceWorkflow # <<>>)
                  => Get(meta, S_workflow_name) = Str(e.sourceWorkflow)
    [] i = 5 -> ("expectedHeadSha" \in DOMAIN e /\ e.expectedHeadSha # <<>>)
                  => Get(meta, S_head_sha) = Str(e.expectedHeadSha)
    [] i = 6 -> ("expectedPrNumber" \in DOMAIN e /\ e.expectedPrNumber # <<>>)
                  => String(Get(meta, S_pr_number)) = e.expectedPrNumber
    [] i = 7 -> ("requireEvents" \in DOMAIN e /\ e.requireEvents # <<>>)
                  => \E j \in DOMAIN e.requireEvents :
                       Get(meta, S_event_name) = Str(e.requireEvents[j])

BindingError(i) ==
  <<"Repository mismatch", "Run mismatch", "Run attempt mismatch", "Workflow mismatch",
    "Head SHA mismatch", "PR mismatch", "Source event not allowed">>[i]

\* The meta field each binding reads, and whether the expectations check it.
BindingField(i) ==
  <<S_repository, S_workflow_run_id, S_workflow_run_attempt, S_workflow_name,
    S_head_sha, S_pr_number, S_event_name>>[i]

BindingChecked(i, e) ==
  CASE i \in {1, 2} -> TRUE
    [] i = 3 -> "runAttempt" \in DOMAIN e /\ e.runAttempt # <<>>
    [] i = 4 -> "sourceWorkflow" \in DOMAIN e /\ e.sourceWorkflow # <<>>
    [] i = 5 -> "expectedHeadSha" \in DOMAIN e /\ e.expectedHeadSha # <<>>
    [] i = 6 -> "expectedPrNumber" \in DOMAIN e /\ e.expectedPrNumber # <<>>
    [] i = 7 -> "requireEvents" \in DOMAIN e /\ e.requireEvents # <<>>

\* meta with the own property k set to v.
SetField(o, k, v) == DefineProperty(o, k, v)

\* A value of the field that differs from every value the inputs use.
Fresh == <<"q">>
ChangedValue(i) == IF i = 6 THEN Num(99) ELSE Str(Fresh)

\* C2: validateConsumerExpectations returns without error iff the repository
\* and run id are equal and every supplied non-empty optional expectation
\* matches; from an accepted pair, changing one checked meta field alone is
\* rejected, and changing a field whose expectation is absent or empty is not.
C2_AcceptsIffAllMatch ==
  Validated =>
    /\ (vResult = OK) <=> (\A i \in 1..7 : BindingHolds(i, vMeta, vExp))
    /\ vResult = OK =>
         \A i \in 1..7 :
           (validateConsumerExpectations(SetField(vMeta, BindingField(i), ChangedValue(i)), vExp) = OK)
             <=> ~BindingChecked(i, vExp)

\* C2 witness: a pair with every optional expectation supplied is accepted.
C2_Witness ==
  /\ vResult = OK
  /\ \A i \in 1..7 : BindingChecked(i, vExp)
  /\ HasOwn(vMeta, S_pr_number)

\* C3 (as claimed): with no pr_number in meta and a non-empty expectedPrNumber,
\* the call is rejected with 'PR mismatch' whenever the five earlier checks pass.
C3_AbsentPrAlwaysRejected ==
  ( /\ Validated
    /\ ~HasOwn(vMeta, S_pr_number)
    /\ "expectedPrNumber" \in DOMAIN vExp /\ vExp.expectedPrNumber # <<>>
    /\ \A i \in 1..5 : BindingHolds(i, vMeta, vExp) )
  => vResult = "PR mismatch"

\* C4: the error raised is that of the earliest failing check in the order
\* repository, run, run attempt, workflow, head SHA, PR number, event list.
C4_FirstFailureWins ==
  Validated =>
    \A i \in 1..7 :
      (~BindingHolds(i, vMeta, vExp) /\ \A j \in 1..(i - 1) : BindingHolds(j, vMeta, vExp))
        => vResult = BindingError(i)

\* C4 witness: three checks fail at once and the earliest of them is reported.
C4_Witness ==
  /\ vResult = "Run attempt mismatch"
  /\ ~BindingHolds(5, vMeta, vExp)
  /\ ~BindingHolds(7, vMeta, vExp)

----------------------------------------------------------------------------
(* Inputs of the path-resolver specification.                              *)

MaxPathLen == 4

PathAlphabet == {"a", "b", "0", "1", ".", "|", " "}

Dot == <<".">>
Bar == <<"|">>
K_a == <<"a">>
K_b == <<"b">>

\* Longer paths than the enumeration reaches: prototype-chain names, deeper
\* walks, other index spellings, three-way fallbacks.
ExtraPaths ==
  { S___proto__,
    S___proto__ \o Dot \o S___proto__,
    K_a \o Dot \o S___proto__ \o Dot \o S___proto__,
    S___proto__ \o Dot \o K_a,
    S_constructor,
    K_a \o Dot \o S_toString \o Dot \o K_a,
    <<"b", ".", "1", ".", "a">>,
    <<"b", ".", "1", "e", "0", ".", "a">>,
    <<"b", ".", "0", "x", "0">>,
    <<"b", ".", "-", "0">>,
    <<"b", ".", "-", "1">>,
    <<"b", ".", "5", "e", "-", "1">>,
    <<"b", ".", "1", "0", "e", "-", "1", ".", "a">>,
    <<"b", ".", "x">>,
    <<"0", ".", "a", "|", "a", ".", "a", "|", "a", ".", "b">>,
    <<"a", ".", "0", "|", "b", ".", "1", "|", "a", ".", "b">>,
    <<" ", "b", ".", "9", " ", "|", " ", "|", " ", "a", " ", ".", " ", "b", " ">> }

PathSpecs == SeqsUpTo(PathAlphabet, MaxPathLen) \cup ExtraPaths

PathValues ==
  { \* {a: {b: 1, a: null}, b: ["x", {a: true}]}
    Obj(<< <<K_a, Obj(<< <<K_b, Num(1)>>, <<K_a, Null>> >>)>>,
           <<K_b, Arr(<< Str(<<"x">>), Obj(<< <<K_a, Bool(TRUE)>> >>) >>)>> >>),
    \* {a: "s", b: null}
    Obj(<< <<K_a, Str(<<"s">>)>>, <<K_b, Null>> >>),
    \* [{a: 7}, 0]
    Arr(<< Obj(<< <<K_a, Num(7)>> >>), Num(0) >>),
    \* {a: {}, b: []}
    Obj(<< <<K_a, Obj(<<>>)>>, <<K_b, Arr(<<>>)>> >>),
    \* {"0": 5, "1": {"0": "y"}}
    Obj(<< <<(<<"0">>), Num(5)>>, <<(<<"1">>), Obj(<< <<(<<"0">>), Str(<<"y">>)>> >>)>> >>),
    \* {"__proto__": {a: 3}} as JSON.parse builds it (an own property)
    Obj(<< <<S___proto__, Obj(<< <<K_a, Num(3)>> >>)>> >>),
    \* scalars at the root
    Str(<<"s">>),
    Null }

----------------------------------------------------------------------------
(* The path-resolver specification.                                        *)

PathInit ==
  /\ pValue \in PathValues
  /\ pPath \in PathSpecs
  /\ pResult = Pending
  /\ ValidateIdle /\ BundleIdle /\ ConsumeIdle /\ FunIdle /\ EmitIdle

Resolve ==
  /\ pResult = Pending
  /\ pResult' = getByPath(pValue, pPath)
  /\ UNCHANGED <<pValue, pPath, validateVars, bundleVars, consumeVars, funVars, emitVars>>

PathNext == Resolve

SpecPath == PathInit /\ [][PathNext]_vars

----------------------------------------------------------------------------
(* Properties of the path resolver (checked under SpecPath).               *)

Resolved == pResult.t \notin {"pending", "unused"}

ScalarTags == {"string", "number", "boolean", "null"}

\* C8: getByPath returns undefined or a scalar, never an object or an array;
\* a path that ends on a container resolves to undefined.
C8_ScalarOrUndefined ==
  Resolved =>
    /\ pResult = Undefined \/ pResult.t \in ScalarTags
    /\ (~Contains(pPath, "|") /\ Walk(pValue, PathParts(pPath)).t \in {"object", "array"})
         => pResult = Undefined

\* C8 witness: a simple path that reaches a container has resolved to undefined.
C8_Witness ==
  /\ Resolved
  /\ ~Contains(pPath, "|")
  /\ PathParts(pPath) # <<>>
  /\ Walk(pValue, PathParts(pPath)).t \in {"object", "array"}
  /\ pResult = Undefined

\* The candidates of a fallback path, as the specification words them: the
\* pieces between '|' characters, trimmed, the empty ones dropped.
FallbackPieces(path) ==
  LET bars == {i \in DOMAIN path : path[i] = "|"}
      cuts == bars \cup {0, Len(path) + 1}
      pieces == {<<i, j>> \in cuts \X cuts : i < j /\ \A k \in cuts : ~(i < k /\ k < j)}
      ordered == [n \in 1..Cardinality(pieces) |->
                    CHOOSE q \in pieces : Cardinality({r \in pieces : r[1] < q[1]}) = n - 1]
  IN  SelectSeq([n \in DOMAIN ordered |->
                   Trim(SubSeq(path, ordered[n][1] + 1, ordered[n][2] - 1))],
                LAMBDA c : c # <<>>)

\* C9: for a path containing '|', the result is the simple-form result of the
\* first candidate, left to right, that resolves to a defined value (null
\* included); it is undefined iff no candidate resolves.
C9_FirstResolvingCandidate ==
  (Resolved /\ Contains(pPath, "|")) =>
    LET c == FallbackPieces(pPath)
        hits == {i \in DOMAIN c : ResolveSimple(pValue, c[i]) # Undefined}
    IN  IF hits = {} THEN pResult = Undefined
        ELSE /\ pResult # Undefined
             /\ pResult = ResolveSimple(pValue, c[CHOOSE i \in hits : \A j \in hits : i <= j])

\* C9 witness: the first candidate does not resolve, the second resolves to
\* null, a later one would resolve to something else; null is returned.
C9_Witness ==
  /\ Resolved
  /\ Contains(pPath, "|")
  /\ LET c == FallbackPieces(pPath)
     IN  /\ Len(c) >= 3
         /\ ResolveSimple(pValue, c[1]) = Undefined
         /\ ResolveSimple(pValue, c[2]) = Null
         /\ ResolveSimple(pValue, c[3]) \notin {Undefined, Null}
  /\ pResult = Null

\* Whether the walk meets a non-array object with a segment that is not one of
\* its own keys (following own keys and valid array indices up to there).
RECURSIVE MeetsNonOwnKey(_, _)
MeetsNonOwnKey(current, parts) ==
  IF parts = <<>> THEN FALSE
  ELSE IF current.t = "array"
    THEN LET index == Number(Head(parts))
         IN  /\ index.isInteger /\ index.n >= 0 /\ index.n < Len(current.items)
             /\ MeetsNonOwnKey(current.items[index.n + 1], Tail(parts))
  ELSE IF current.t = "object"
    THEN \/ ~HasOwn(current, Head(parts))
         \/ MeetsNonOwnKey(GetOwn(current, Head(parts)), Tail(parts))
  ELSE FALSE

\* C10 (as claimed): in simple-form resolution a segment that is not an own key
\* of the non-array object it is applied to makes the resolution undefined.
C10_NonOwnKeyFails ==
  (Resolved /\ ~Contains(pPath, "|") /\ MeetsNonOwnKey(pValue, PathParts(pPath)))
    => pResult = Undefined

----------------------------------------------------------------------------
(* Inputs of the bundle specification: the producer's outputs and           *)
(* outputs_file texts, the sanitize mode, the meta record handed to         *)
(* writeBridgeDirectory (buildBridgeMeta lets extraMeta override any field, *)
(* so it need not be valid), the files list and the working directory.      *)

BadKey == <<"b", "-", "k">>
DigitKey == <<"7">>
Answer == <<"4", "2">>
F_report == <<"r", ".", "t">>
F_nested == <<"d", "/", "n">>
F_missing == <<"m">>

\* The text of an object literal with the given members, in the order written.
ObjectText(members) == JSONstringify(Obj(members))

OutputsTexts ==
  { <<>>,
    ObjectText(<<>>),
    ObjectText(<< <<K_a, Str(Answer)>>, <<K_b, Num(1)>> >>),
    ObjectText(<< <<K_a, Bool(TRUE)>>, <<K_b, Null>> >>),
    ObjectText(<< <<BadKey, Num(1)>> >>),
    ObjectText(<< <<K_a, Num(1)>>, <<DigitKey, Num(2)>> >>),
    ObjectText(<< <<K_a, Obj(<< <<K_b, Num(1)>> >>)>> >>),
    ObjectText(<< <<K_b, Str(<<>>)>>, <<K_a, Arr(<<>>)>> >>),
    ObjectText(<< <<S___proto__, Obj(<< <<K_a, Num(1)>> >>)>> >>),
    ObjectText(<< <<S___proto__, Num(1)>>, <<K_a, Num(1)>> >>),
    ObjectText(<< <<K_a, Num(1)>>, <<K_a, Num(2)>> >>),
    <<Punct("{"), TStr(K_a), Punct(":"), THuge, Punct("}")>>,
    JSONstringify(Arr(<<Num(1)>>)),
    JSONstringify(Null),
    <<Punct("{"), TStr(K_a)>> }

OutputsFileTexts ==
  { <<>>,
    ObjectText(<< <<K_a, Str(<<"f">>)>>, <<S_meta, Num(0)>> >>),
    ObjectText(<< <<K_b, Arr(<<Num(1)>>)>> >>) }

GoodMeta == MkMeta(RepoA, RunA, AttemptA, WorkflowA, ShaA, EventA, <<42>>)

BundleMetas ==
  { GoodMeta,
    DefineProperty(GoodMeta, S_event, Obj(<< <<K_a, Obj(<< <<K_b, Num(1)>> >>)>> >>)),
    DefineProperty(GoodMeta, S_schema_version, Num(1)),
    DefineProperty(GoodMeta, S_head_sha, Str(<<>>)),
    DefineProperty(GoodMeta, S_pr_number, Str(Answer)),
    DefineProperty(GoodMeta, S_event, Arr(<<>>)),
    Obj(SelectSeq(Entries(GoodMeta), LAMBDA e : e[1] # S_created_at)) }

FileLists ==
  { <<>>,
    <<F_report>>,
    <<F_report, <<".", "/", "d", "/", "/", "n">> >>,
    <<F_report, <<"/", "r">> >>,
    <<<<".", ".", "/", "r">>, F_report>>,
    <<F_nested, <<"d", "/", ".", ".", "/", ".", ".", "/", "r">> >>,
    <<F_nested, F_missing, F_report>>,
    << <<"d", "/", ".", ".", "/", "r", ".", "t">>, <<".", "/", "d", "/", ".", "/", "n">> >>,
    <<F_report, <<"d", "/", "n", "/", ".", ".", "/", ".", ".", "/", ".", ".", "/", "r">> >>,
    <<F_report, <<".", "/", ".", ".", "c">> >> }

\* The regular files the working directory gives access to, by their path
\* relative to it, with their contents: two below it and one in its parent.
F_outside == <<".", ".", "/", "r">>
\* A file below the working directory whose name begins with two dots.
F_dotted == <<".", ".", "c">>
Workspace ==
  (F_report :> "report") @@ (F_nested :> "nested") @@ (F_outside :> "outside")
    @@ (F_dotted :> "dotted")

----------------------------------------------------------------------------
(* The bundle specification: build the outputs map, write the bundle       *)
(* directory, read it back.                                                *)

BundleInit ==
  /\ bIn \in [outputs : OutputsTexts, outputsFile : OutputsFileTexts,
              sanitize : {"strict", "none"}, meta : BundleMetas, files : FileLists]
  /\ bOutputs = Pending
  /\ bRoot = EmptyRoot
  /\ bWrite = Pending
  /\ bRead = Pending
  /\ ValidateIdle /\ PathIdle /\ ConsumeIdle /\ FunIdle /\ EmitIdle

Build ==
  /\ bOutputs = Pending
  /\ bOutputs' = parseAndMergeOutputs(bIn.outputs, bIn.outputsFile, bIn.sanitize)
  /\ UNCHANGED <<bIn, bRoot, bWrite, bRead, validateVars, pathVars, consumeVars, funVars, emitVars>>

Write ==
  /\ bOutputs # Pending /\ bOutputs.ok
  /\ bWrite = Pending
  /\ LET w == writeBridgeDirectory(bRoot, bOutputs.v, bIn.meta, bIn.files, Workspace)
     IN  bRoot' = w.root /\ bWrite' = w.result
  /\ UNCHANGED <<bIn, bOutputs, bRead, validateVars, pathVars, consumeVars, funVars, emitVars>>

Read ==
  /\ bWrite # Pending
  /\ bRead = Pending
  /\ bRead' = readBridgeDirectory(bRoot)
  /\ UNCHANGED <<bIn, bOutputs, bRoot, bWrite, validateVars, pathVars, consumeVars, funVars, emitVars>>

BundleNext == Build \/ Write \/ Read

SpecBundle == BundleInit /\ [][BundleNext]_vars

----------------------------------------------------------------------------
(* Properties of the bundle reader (checked under SpecBundle).             *)

ReadEnded == bRead \notin {Pending, Unused}

\* The outputs map handed to writeBridgeDirectory breaks the strict rules.
WrittenOutputsInvalid ==
  \E i \in DOMAIN Entries(bOutputs.v) :
    \/ ~OUTPUT_KEY_RE(Entries(bOutputs.v)[i][1])
    \/ ~isScalar(Entries(bOutputs.v)[i][2])

\* C5: readBridgeDirectory returns a bundle only if its meta passes
\* validateMeta and every outputs key matches ^[A-Za-z_][A-Za-z0-9_]*$ with a
\* scalar value, whatever sanitize mode the bundle was written with: a bundle
\* written from outputs built with sanitize 'none' that hold an invalid key or
\* a nested value is rejected on read.
C5_ReadIsAlwaysStrict ==
  ReadEnded =>
    /\ bRead.ok =>
         /\ validateMeta(bRead.v.meta).ok
         /\ \A i \in DOMAIN Entries(bRead.v.outputs) :
              /\ OUTPUT_KEY_RE(Entries(bRead.v.outputs)[i][1])
              /\ isScalar(Entries(bRead.v.outputs)[i][2])
    /\ (bIn.sanitize = "none" /\ WrittenOutputsInvalid) => ~bRead.ok

C5_Witness ==
  /\ ReadEnded
  /\ bIn.sanitize = "none"
  /\ bWrite.ok
  /\ WrittenOutputsInvalid
  /\ validateMeta(bIn.meta).ok
  /\ ~bRead.ok
  /\ bRead.error \in {"Invalid output key", "Output must be a scalar value"}

----------------------------------------------------------------------------
(* The consume entrypoint (consume/main.ts and consume/token.ts).  Inputs  *)
(* are the texts core.getInput returns.                                    *)

S_bridge == <<"b", "r", "i", "d", "g", "e">>
S_env == <<"e", "n", "v">>
S_both == <<"b", "o", "t", "h">>
S_True == <<"T", "r", "u", "e">>
S_TRUE == <<"T", "R", "U", "E">>
S_False == <<"F", "a", "l", "s", "e">>
S_FALSE == <<"F", "A", "L", "S", "E">>

\* a || b for two JavaScript values
OrElse(a, b) == IF Falsy(a) THEN b ELSE a

\* resolveAuthToken with the environment consulted before the inputs
resolveAuthToken_EnvFirst(sources) ==
  LET token == OrElse(OrElse(OrElse(sources.envGithubToken, sources.envGhToken),
                             Str(sources.tokenInput)),
                      Str(sources.githubTokenInput))
  IN  IF ~Falsy(token) THEN Return(token)
      ELSE Throw("Missing token for artifact download", Label("token"))

resolveAuthToken(sources) ==
  LET token == OrElse(OrElse(OrElse(Str(sources.tokenInput), Str(sources.githubTokenInput)),
                             sources.envGithubToken),
                      sources.envGhToken)
  IN  IF ~Falsy(token) THEN Return(token)
      ELSE Throw("Missing token for artifact download", Label("token"))

\* core.getBooleanInput(name)
getBooleanInput(text, name) ==
  IF text \in {S_true, S_True, S_TRUE} THEN Return(TRUE)
  ELSE IF text \in {S_false, S_False, S_FALSE} THEN Return(FALSE)
  ELSE Throw("Input does not meet YAML 1.2 Core Schema specification", Label(name))

parseExposeMode(input) ==
  LET expose == Trim(IF input # <<>> THEN input ELSE S_outputs)
  IN  IF expose \in {S_outputs, S_env, S_both} THEN Return(expose)
      ELSE Throw("Invalid expose mode", Name(expose))

\* One core.setOutput / core.exportVariable call.
setOutput(name, value) == [sink |-> "output", name |-> name, value |-> value]
exportVariable(name, value) == [sink |-> "env", name |-> name, value |-> value]

\* The value of an emitted output: a plain text, a JSON text, or the
\* resolved destination path.
Text(chars) == [text |-> chars]
Json(tokens) == [json |-> tokens]
DestinationPath == [path |-> "destination"]

\* writeMaybeOutput with the step output written under every expose mode
writeMaybeOutput_AlwaysOutput(name, value, expose) ==
  <<setOutput(name, value)>>
  \o (IF expose \in {S_env, S_both} THEN <<exportVariable(name, value)>> ELSE <<>>)

\* writeMaybeOutput(name, value, expose): the calls it makes, in order
writeMaybeOutput(name, value, expose) ==
  (IF expose \in {S_outputs, S_both} THEN <<setOutput(name, value)>> ELSE <<>>)
  \o (IF expose \in {S_env, S_both} THEN <<exportVariable(name, value)>> ELSE <<>>)

\* Number(core.getInput('run_id') || context.payload.workflow_run?.id).  The
\* run_id texts drawn below hold no '.', exponent or Infinity, so a result
\* that is not an integer is NaN.
RunIdOf(in) ==
  IF in.run_id # <<>> THEN Number(in.run_id)
  ELSE IF in.payloadRunId.t = "number" THEN IntegerResult(in.payloadRunId.n)
  ELSE NotAnInteger

\* The run id test that lets zero through
RunIdUnusable_NaNOnly(runId) == ~runId.isInteger

\* !runId || Number.isNaN(runId)
RunIdUnusable(runId) == ~runId.isInteger \/ runId.n = 0

ArtifactNameOf(in) == IF in.artifact # <<>> THEN in.artifact ELSE S_bridge

\* process.env.GITHUB_REPOSITORY || `${context.repo.owner}/${context.repo.repo}`
RepositoryOf(in) == IF in.envRepository # <<>> THEN in.envRepository ELSE in.contextRepository

\* The part of run() before the download: the first error it throws, if any.
Prologue(in) ==
  LET token == resolveAuthToken([tokenInput |-> in.token,
                                 githubTokenInput |-> in.github_token,
                                 envGithubToken |-> in.envGithubToken,
                                 envGhToken |-> in.envGhToken])
      failOnMissing == getBooleanInput(in.fail_on_missing, "fail_on_missing")
      expose == parseExposeMode(in.expose)
  IN  IF ~token.ok THEN token
      ELSE IF ~failOnMissing.ok THEN failOnMissing
      ELSE IF ~expose.ok THEN expose
      ELSE IF RunIdUnusable(RunIdOf(in)) THEN Throw("run_id is required", Label("run_id"))
      ELSE Return([token |-> token.v, runId |-> RunIdOf(in).n,
                   failOnMissing |-> failOnMissing.v, expose |-> expose.v])

\* artifacts.find((a) => a.name === artifactName): its index, or 0
findArtifact(artifacts, artifactName) ==
  FirstIndex([i \in DOMAIN artifacts |-> artifacts[i].name = artifactName])

MissingArtifact_AlwaysNull(artifactName, failOnMissing) == Return(Null)

\* downloadBridgeArtifact when no artifact has the name
MissingArtifact(artifactName, failOnMissing) ==
  IF failOnMissing THEN Throw("Artifact was not found", Name(artifactName))
  ELSE Return(Null)

\* The expectations record validateExpectations builds from the inputs.
ConsumerExpectations(in, runId) ==
  [repository |-> RepositoryOf(in),
   runId |-> String(Num(runId)),
   requireEvents |-> parsePathList(in.require_event)]
  @@ (IF Falsy(in.triggerAttempt) THEN <<>> ELSE [runAttempt |-> String(in.triggerAttempt)])
  @@ (IF in.source_workflow = <<>> THEN <<>> ELSE [sourceWorkflow |-> in.source_workflow])
  @@ (IF in.expected_head_sha = <<>> THEN <<>> ELSE [expectedHeadSha |-> in.expected_head_sha])
  @@ (IF in.expected_pr_number = <<>> THEN <<>> ELSE [expectedPrNumber |-> in.expected_pr_number])

validateExpectations_Skip(meta, runId, in) == OK

validateExpectations(meta, runId, in) ==
  validateConsumerExpectations(meta, ConsumerExpectations(in, runId))

\* value === null ? 'null' : String(value)
Serialized(value) == IF value = Null THEN S_null ELSE String(value)

\* The for loop of run() over Object.entries(bridge.outputs)
ExposeKeys(outputs, prefix, expose) ==
  JoinStrings([i \in DOMAIN Entries(outputs) |->
                 writeMaybeOutput(Name(prefix \o Entries(outputs)[i][1]),
                                  Text(Serialized(Entries(outputs)[i][2])), expose)],
              <<>>)

\* { outputs, meta, event: meta.event || {} }
ExtractionSource(outputs, meta) ==
  Obj(<< <<S_outputs, outputs>>, <<S_meta, meta>>,
         <<S_event, OrElse(Get(meta, S_event), Obj(<<>>))>> >>)

\* emitExtractedValues with a null resolution skipped like an undefined one
emitExtractedValues_SkipNull(outputs, meta, expose, extractRaw) ==
  IF Trim(extractRaw) = <<>> THEN Return(<<>>)
  ELSE LET mappings == parseExtractMappings(extractRaw)
           value(m) == getByPath(ExtractionSource(outputs, meta), m.path)
       IN  IF ~mappings.ok THEN mappings
           ELSE Return(JoinStrings(
                  [i \in DOMAIN mappings.v |->
                     IF value(mappings.v[i]) \in {Undefined, Null} THEN <<>>
                     ELSE writeMaybeOutput(Name(mappings.v[i].name),
                                           Text(Serialized(value(mappings.v[i]))), expose)],
                  <<>>))

\* emitExtractedValues: the calls it makes, or the error it throws
emitExtractedValues(outputs, meta, expose, extractRaw) ==
  IF Trim(extractRaw) = <<>> THEN Return(<<>>)
  ELSE LET mappings == parseExtractMappings(extractRaw)
           value(m) == getByPath(ExtractionSource(outputs, meta), m.path)
       IN  IF ~mappings.ok THEN mappings
           ELSE Return(JoinStrings(
                  [i \in DOMAIN mappings.v |->
                     IF value(mappings.v[i]) = Undefined THEN <<>>
                     ELSE writeMaybeOutput(Name(mappings.v[i].name),
                                           Text(Serialized(value(mappings.v[i]))), expose)],
                  <<>>))

\* The three outputs of the empty result
EmptyResultOutputs ==
  <<setOutput(Label("outputs-json"), Json(JSONstringify(Obj(<<>>)))),
    setOutput(Label("meta-json"), Json(JSONstringify(Obj(<<>>)))),
    setOutput(Label("event-json"), Json(JSONstringify(Obj(<<>>))))>>

\* The summary outputs with the event subset gone from the serialized meta
SummaryOutputs_EventStripped(bridge) ==
  <<setOutput(Label("outputs-json"), Json(JSONstringify(bridge.outputs))),
    setOutput(Label("meta-json"),
              Json(JSONstringify(Obj(SelectSeq(Entries(bridge.meta),
                                               LAMBDA e : e[1] # S_event))))),
    setOutput(Label("event-json"), Json(JSONstringify(Obj(<<>>)))),
    setOutput(Label("files-path"), DestinationPath)>>

\* The four outputs set after the expose stage
SummaryOutputs(bridge) ==
  <<setOutput(Label("outputs-json"), Json(JSONstringify(bridge.outputs))),
    setOutput(Label("meta-json"), Json(JSONstringify(bridge.meta))),
    setOutput(Label("event-json"),
              Json(JSONstringify(OrElse(Get(bridge.meta, S_event), Obj(<<>>))))),
    setOutput(Label("files-path"), DestinationPath)>>

----------------------------------------------------------------------------
(* Inputs of the consume specification.                                    *)

Tok == <<"t", "k">>
OtherArtifact == <<"l", "o", "g", "s">>
S_x == <<"x">>
S_y == <<"y">>

\* An unpacked artifact: meta.json and outputs.json texts and the files tree.
Unpacked(meta, outputsText, filesDir) ==
  [meta |-> FileWith(JSONstringify(meta)), outputs |-> FileWith(outputsText),
   filesDir |-> filesDir]

GoodOutputsText == ObjectText(<< <<K_a, Str(Answer)>>, <<K_b, Null>> >>)
MetaWithEvent ==
  DefineProperty(GoodMeta, S_event, Obj(<< <<K_a, Obj(<< <<K_b, Num(1)>> >>)>> >>))
ReportFiles == Dir(F_report :> "report")

ArtifactRoots ==
  { Unpacked(MetaWithEvent, GoodOutputsText, ReportFiles),
    Unpacked(GoodMeta, ObjectText(<<>>), NoDir),
    Unpacked(GoodMeta, GoodOutputsText, NotADir),
    Unpacked(MkMeta(RepoA, RunA, AttemptA, WorkflowA, ShaB, EventB, <<>>),
             GoodOutputsText, ReportFiles),
    Unpacked(GoodMeta, ObjectText(<< <<K_a, Num(1)>>, <<BadKey, Num(1)>> >>), ReportFiles),
    Unpacked(DefineProperty(GoodMeta, S_schema_version, Num(1)), GoodOutputsText, ReportFiles),
    [meta |-> NoFile, outputs |-> FileWith(GoodOutputsText), filesDir |-> ReportFiles] }

ArtifactLists ==
  { <<>>, <<[name |-> OtherArtifact, root |-> Unpacked(GoodMeta, GoodOutputsText, NoDir)]>> }
  \cup { <<[name |-> S_bridge, root |-> r]>> : r \in ArtifactRoots }

ExtractTexts ==
  { <<>>,
    S_x \o <<"=">> \o S_outputs \o Dot \o K_a,
    S_x \o <<"=">> \o S_outputs \o Dot \o S_x \o Bar \o S_meta \o Dot \o S_head_sha
      \o <<"\r", "\n">> \o S_y \o <<" ", "=", " ">> \o S_event \o Dot \o K_a \o Dot \o K_b,
    S_x \o S_outputs,
    S_x \o <<"=">> \o S_outputs \o Dot \o K_b \o <<"\n">> \o <<"7", "=">> \o K_a,
    \* a=outputs.b / x=nope / a=meta.head_sha
    K_a \o <<"=">> \o S_outputs \o Dot \o K_b
      \o <<"\n">> \o S_x \o <<"=", "n", "o", "p", "e">>
      \o <<"\n">> \o K_a \o <<"=">> \o S_meta \o Dot \o S_head_sha,
    \* y=outputs.b
    S_y \o <<"=">> \o S_outputs \o Dot \o K_b }

Destinations == {NoDir, Dir(F_report :> "old"), NotADir}

BaseInputs ==
  [token |-> Tok, github_token |-> <<>>, envGithubToken |-> Undefined,
   envGhToken |-> Undefined, artifact |-> <<>>, run_id |-> RunA,
   payloadRunId |-> Undefined, fail_on_missing |-> S_true, expose |-> <<>>,
   prefix |-> <<>>, envRepository |-> RepoA, contextRepository |-> RepoB,
   source_workflow |-> <<>>, expected_head_sha |-> <<>>, expected_pr_number |-> <<>>,
   require_event |-> <<>>, triggerAttempt |-> Undefined, extract |-> <<>>,
   artifacts |-> <<[name |-> S_bridge, root |-> Unpacked(MetaWithEvent, GoodOutputsText, ReportFiles)]>>,
   destination |-> NoDir]

\* Inputs that vary what run() reads before the download.
PrologueInputs ==
  {[BaseInputs EXCEPT !.token = t, !.envGhToken = g, !.run_id = r, !.payloadRunId = w,
                      !.fail_on_missing = f, !.expose = e] :
     t \in {<<>>, Tok},
     g \in {Undefined, Str(Tok)},
     r \in {<<>>, RunA, <<"0">>, <<"r", "u", "n">>},
     w \in {Undefined, Num(123)},
     f \in {S_true, S_FALSE, <<>>},
     e \in {<<>>, S_env, S_both, <<"a", "l", "l">>}}

\* Inputs that vary the artifact, the policy and the later stages.
StageInputs ==
  {[BaseInputs EXCEPT !.artifacts = a, !.fail_on_missing = f, !.expose = e, !.extract = x,
                      !.expected_head_sha = h, !.require_event = v, !.destination = d] :
     a \in ArtifactLists,
     f \in {S_true, S_false},
     e \in {S_outputs, S_env, S_both},
     x \in ExtractTexts,
     h \in {<<>>, ShaA, ShaB},
     v \in {<<>>, EventA \o <<",", " ">> \o EventB},
     d \in Destinations}

\* Inputs that vary the remaining identity bindings, the prefix and the name.
BindingInputs ==
  {[BaseInputs EXCEPT !.triggerAttempt = t, !.source_workflow = w, !.expected_pr_number = n,
                      !.envRepository = r, !.prefix = p, !.artifact = a] :
     t \in {Undefined, Num(1), Num(2)},
     w \in {<<>>, WorkflowA, WorkflowB},
     n \in {<<>>, Answer, S_undefined},
     r \in {<<>>, RepoA},
     p \in {<<>>, <<"p", "_">>},
     a \in {<<>>, S_bridge, OtherArtifact}}

\* Inputs that vary how the outputs are exposed: the mode, the prefix and the
\* mappings.
ExposeInputs ==
  {[BaseInputs EXCEPT !.expose = e, !.prefix = p, !.extract = x] :
     e \in {<<>>, S_outputs, S_env, S_both, <<"E", "N", "V">>},
     p \in {<<>>, <<"p", "_">>},
     x \in ExtractTexts}

ConsumeInputs == PrologueInputs \cup StageInputs \cup BindingInputs \cup ExposeInputs

----------------------------------------------------------------------------
(* The consume specification: run() stage by stage.  A stage that throws   *)
(* ends the run in "failed" with the error (run().catch sets the failure). *)

NoBridge == [t |-> "none"]
NoError == [t |-> "none"]

ConsumeInit ==
  /\ cIn \in ConsumeInputs
  /\ cPc = "start"
  /\ cBridge = NoBridge
  /\ cLog = <<>>
  /\ cDest = cIn.destination
  /\ cTemp = "none"
  /\ cCalls = <<>>
  /\ cError = NoError
  /\ ValidateIdle /\ PathIdle /\ BundleIdle /\ FunIdle /\ EmitIdle

\* The run ends with the error a stage threw.
Fail(error) == cPc' = "failed" /\ cError' = error

Start ==
  /\ cPc = "start"
  /\ IF Prologue(cIn).ok
       THEN cPc' = "download" /\ UNCHANGED cError
       ELSE Fail(Prologue(cIn))
  /\ UNCHANGED <<cIn, cBridge, cLog, cDest, cTemp, cCalls,
                 validateVars, pathVars, bundleVars, funVars, emitVars>>

Download ==
  /\ cPc = "download"
  /\ LET name == ArtifactNameOf(cIn)
         found == findArtifact(cIn.artifacts, name)
         missing == MissingArtifact(name, Prologue(cIn).v.failOnMissing)
         read == readBridgeDirectory(cIn.artifacts[found].root)
     IN  \/ /\ cCalls' = <<"listWorkflowRunArtifacts">>
            /\ Fail(Throw("request failed", Label("listWorkflowRunArtifacts")))
            /\ UNCHANGED <<cBridge, cLog, cTemp>>
         \/ /\ found = 0
            /\ cCalls' = <<"listWorkflowRunArtifacts">>
            /\ IF missing.ok
                 THEN cLog' = EmptyResultOutputs /\ cPc' = "done" /\ UNCHANGED cError
                 ELSE Fail(missing) /\ UNCHANGED cLog
            /\ UNCHANGED <<cBridge, cTemp>>
         \/ /\ found # 0
            /\ cCalls' = <<"listWorkflowRunArtifacts", "downloadArtifact">>
            /\ Fail(Throw("request failed", Label("downloadArtifact")))
            /\ UNCHANGED <<cBridge, cLog, cTemp>>
         \/ /\ found # 0
            /\ cCalls' = <<"listWorkflowRunArtifacts", "downloadArtifact", "mkdtemp">>
            /\ cTemp' = "present"
            /\ Fail(Throw("unzip failed", Label("artifact")))
            /\ UNCHANGED <<cBridge, cLog>>
         \/ /\ found # 0
            /\ cCalls' = <<"listWorkflowRunArtifacts", "downloadArtifact", "mkdtemp",
                           "readBridgeDirectory">>
            /\ cTemp' = "present"
            /\ IF read.ok
                 THEN cBridge' = read.v /\ cPc' = "validate" /\ UNCHANGED cError
                 ELSE Fail(read) /\ UNCHANGED cBridge
            /\ UNCHANGED cLog
  /\ UNCHANGED <<cIn, cDest, validateVars, pathVars, bundleVars, funVars, emitVars>>

ValidateMetadata ==
  /\ cPc = "validate"
  /\ cCalls' = Append(cCalls, "validateConsumerExpectations")
  /\ LET outcome == validateExpectations(cBridge.meta, Prologue(cIn).v.runId, cIn)
     IN  IF outcome = OK
           THEN cPc' = "restore" /\ UNCHANGED cError
           ELSE Fail(Throw(outcome, Label("meta")))
  /\ UNCHANGED <<cIn, cBridge, cLog, cDest, cTemp, validateVars, pathVars, bundleVars, funVars, emitVars>>

RestoreFiles ==
  /\ cPc = "restore"
  /\ cCalls' = Append(cCalls, "restoreBridgeFiles")
  /\ \E io \in RestoreOutcomes(cBridge.filesDir) :
       LET restore == restoreBridgeFiles(cBridge.filesDir, cDest, io)
       IN  /\ cDest' = restore.dest
           /\ IF restore.result.ok
                THEN cPc' = "expose" /\ UNCHANGED cError
                ELSE Fail(restore.result)
  /\ UNCHANGED <<cIn, cBridge, cLog, cTemp, validateVars, pathVars, bundleVars, funVars, emitVars>>

ExposeOutputs ==
  /\ cPc = "expose"
  /\ LET expose == Prologue(cIn).v.expose
         keys == ExposeKeys(cBridge.outputs, cIn.prefix, expose)
         extracted == emitExtractedValues(cBridge.outputs, cBridge.meta, expose, cIn.extract)
     IN  IF extracted.ok
           THEN cLog' = cLog \o keys \o extracted.v /\ cPc' = "summary" /\ UNCHANGED cError
           ELSE cLog' = cLog \o keys /\ Fail(extracted)
  /\ UNCHANGED <<cIn, cBridge, cDest, cTemp, cCalls, validateVars, pathVars, bundleVars, funVars, emitVars>>

Finish ==
  /\ cPc = "summary"
  /\ cLog' = cLog \o SummaryOutputs(cBridge)
  /\ cCalls' = Append(cCalls, "rm")
  /\ cTemp' = "removed"
  /\ cPc' = "done"
  /\ UNCHANGED <<cIn, cBridge, cDest, cError, validateVars, pathVars, bundleVars, funVars, emitVars>>

ConsumeNext ==
  Start \/ Download \/ ValidateMetadata \/ RestoreFiles \/ ExposeOutputs \/ Finish

SpecConsume == ConsumeInit /\ [][ConsumeNext]_vars

----------------------------------------------------------------------------
(* Properties of the consume run (checked under SpecConsume).              *)

\* A per-key bridge output, an environment variable or an extracted value
\* has been emitted: these are the emissions under a computed name (the
\* summary outputs have fixed names).
KeyOrExtractedEmitted == \E i \in DOMAIN cLog : "name" \in DOMAIN cLog[i].name

EnvironmentWritten == \E i \in DOMAIN cLog : cLog[i].sink = "env"

\* Files have been restored: the destination is no longer as the run found it.
FilesRestored == cDest # cIn.destination

Called(operation) == \E i \in DOMAIN cCalls : cCalls[i] = operation

StageOrder ==
  <<"listWorkflowRunArtifacts", "downloadArtifact", "mkdtemp", "readBridgeDirectory",
    "validateConsumerExpectations", "restoreBridgeFiles", "rm">>

\* C1: in every consume run nothing is emitted per key, to the environment or
\* by extraction, and no file is restored, unless validateConsumerExpectations
\* has already been called on the downloaded bundle's meta in that run and
\* returned without error; download/read, validate, restore, expose happen
\* in that order only.
C1_NothingBeforeValidation ==
  /\ (KeyOrExtractedEmitted \/ EnvironmentWritten \/ FilesRestored) =>
       /\ cBridge # NoBridge
       /\ Called("validateConsumerExpectations")
       /\ validateConsumerExpectations(
            cBridge.meta, ConsumerExpectations(cIn, Prologue(cIn).v.runId)) = OK
  /\ cCalls = SubSeq(StageOrder, 1, Len(cCalls))
  /\ (KeyOrExtractedEmitted \/ EnvironmentWritten) => Called("restoreBridgeFiles")

C1_Witness ==
  /\ cPc = "done"
  /\ KeyOrExtractedEmitted /\ EnvironmentWritten /\ FilesRestored
  /\ cIn.expected_head_sha # <<>>
  /\ cIn.require_event # <<>>

\* C6: a consume run that ends in an error has emitted no per-key output, no
\* environment variable and no extracted value, and has restored no files.
C6_ErrorCommitsNothing ==
  cPc = "failed" => ~KeyOrExtractedEmitted /\ ~EnvironmentWritten /\ ~FilesRestored

\* The artifact listing was answered and holds no artifact of the wanted name.
ArtifactNotFound ==
  /\ Called("listWorkflowRunArtifacts")
  /\ cError # Throw("request failed", Label("listWorkflowRunArtifacts"))
  /\ \A i \in DOMAIN cIn.artifacts : cIn.artifacts[i].name # ArtifactNameOf(cIn)

EmptyJson == Json(<<Punct("{"), Punct("}")>>)

\* C7: when the named artifact is not found, fail_on_missing=true fails the run
\* with 'Artifact <name> was not found'; fail_on_missing=false ends it
\* successfully with outputs-json, meta-json and event-json set to '{}' and
\* with no validation, no restore and no per-key or extracted output.  No other
\* failure is downgraded: every other successful run went through every stage.
C7_MissingArtifactPolicy ==
  /\ ArtifactNotFound =>
       IF cIn.fail_on_missing \in {S_true, S_True, S_TRUE}
         THEN /\ cPc = "failed"
              /\ cError.error = "Artifact was not found"
              /\ cError.about = Name(ArtifactNameOf(cIn))
              /\ cLog = <<>>
         ELSE /\ cPc = "done"
              /\ cError = NoError
              /\ cLog = <<setOutput(Label("outputs-json"), EmptyJson),
                          setOutput(Label("meta-json"), EmptyJson),
                          setOutput(Label("event-json"), EmptyJson)>>
              /\ ~Called("validateConsumerExpectations")
              /\ ~Called("restoreBridgeFiles")
              /\ ~FilesRestored
  /\ (cPc = "done" /\ ~ArtifactNotFound) =>
       /\ cError = NoError
       /\ Called("readBridgeDirectory")
       /\ Called("validateConsumerExpectations")
       /\ Called("restoreBridgeFiles")
       /\ \E i \in DOMAIN cLog : cLog[i].name = Label("files-path")

C7_Witness ==
  /\ ArtifactNotFound
  /\ cIn.fail_on_missing = S_false
  /\ cIn.artifacts # <<>>
  /\ cPc = "done"
  /\ Len(cLog) = 3

----------------------------------------------------------------------------
(* bridge.ts: pickByPaths.  setByPath mutates objects through references,  *)
(* and a part named __proto__ leads from an object to Object.prototype, so *)
(* the objects it touches live in a heap: heap[1] holds the properties     *)
(* added to Object.prototype, heap[2] is out, and every object setByPath   *)
(* creates is appended.  The value argument stays a tree.                  *)

Ref(id) == [t |-> "ref", id |-> id]
ObjectPrototypeRef == Ref(1)
OutRef == Ref(2)
InitialHeap == <<Obj(<<>>), Obj(<<>>)>>

\* The prototype of a heap object.
ProtoOfRef(r, heap) ==
  IF r = ObjectPrototypeRef THEN Null
  ELSE IF "proto" \in DOMAIN heap[r.id] THEN heap[r.id].proto
  ELSE ObjectPrototypeRef

\* k in Object.prototype, and Object.prototype[k], given the properties added
ProtoHasUnder(k, heap) == k \in ObjectPrototypeKeys \/ HasOwn(heap[1], k)

ProtoGetUnder(k, heap) ==
  IF k = S___proto__ THEN Null
  ELSE IF HasOwn(heap[1], k) THEN GetOwn(heap[1], k)
  ELSE ProtoGet(k)

\* k in r, for a heap object or null
RECURSIVE InRef(_, _, _)
InRef(k, r, heap) ==
  IF r.t # "ref" THEN FALSE
  ELSE IF r = ObjectPrototypeRef THEN ProtoHasUnder(k, heap)
  ELSE HasOwn(heap[r.id], k) \/ InRef(k, ProtoOfRef(r, heap), heap)

\* r[k] for a heap object
RECURSIVE GetRef(_, _, _)
GetRef(r, k, heap) ==
  IF r.t # "ref" THEN Undefined
  ELSE IF r = ObjectPrototypeRef THEN ProtoGetUnder(k, heap)
  ELSE IF HasOwn(heap[r.id], k) THEN GetOwn(heap[r.id], k)
  ELSE IF ~InRef(k, ProtoOfRef(r, heap), heap) THEN Undefined
  ELSE IF k = S___proto__ THEN ProtoOfRef(r, heap)
  ELSE GetRef(ProtoOfRef(r, heap), k, heap)

\* part in objectValue and objectValue[part] for an object of the value tree
\* (a parsed object: its prototype is Object.prototype)
InUnder(k, o, heap) == HasOwn(o, k) \/ ProtoHasUnder(k, heap)

GetUnder(o, k, heap) ==
  IF HasOwn(o, k) THEN GetOwn(o, k)
  ELSE IF k = S___proto__ THEN ObjectPrototypeRef
  ELSE IF ProtoHasUnder(k, heap) THEN ProtoGetUnder(k, heap)
  ELSE Undefined

\* The loop of getByPath over the parts, with Object.prototype as the heap has it
RECURSIVE WalkUnder(_, _, _)
WalkUnder(current, parts, heap) ==
  IF parts = <<>> THEN current
  ELSE IF current.t \in {"null", "undefined"} THEN Undefined
  ELSE IF IsArray(current)
    THEN LET index == Number(Head(parts))
         IN  IF ~index.isInteger \/ index.n < 0 \/ index.n >= Len(current.items)
               THEN Undefined
               ELSE WalkUnder(current.items[index.n + 1], Tail(parts), heap)
  ELSE IF current.t = "ref"
    THEN IF ~InRef(Head(parts), current, heap) THEN Undefined
         ELSE WalkUnder(GetRef(current, Head(parts), heap), Tail(parts), heap)
  ELSE IF TypeOf(current) # "object" THEN Undefined
  ELSE IF ~InUnder(Head(parts), current, heap) THEN Undefined
  ELSE WalkUnder(GetUnder(current, Head(parts), heap), Tail(parts), heap)

ResolveSimpleUnder(value, pathSpec, heap) ==
  LET parts == PathParts(pathSpec)
  IN  IF Len(parts) = 0 THEN Undefined ELSE TerminalValue(WalkUnder(value, parts, heap))

RECURSIVE FirstFoundUnder(_, _, _)
FirstFoundUnder(value, candidates, heap) ==
  IF candidates = <<>> THEN Undefined
  ELSE LET found == ResolveSimpleUnder(value, Head(candidates), heap)
       IN  IF found # Undefined THEN found ELSE FirstFoundUnder(value, Tail(candidates), heap)

\* getByPath(value, pathSpec) as pickByPaths calls it
getByPathUnder(value, pathSpec, heap) ==
  IF Contains(pathSpec, "|")
    THEN FirstFoundUnder(value, Candidates(pathSpec), heap)
    ELSE ResolveSimpleUnder(value, pathSpec, heap)

\* The outcome of a step on the heap: the heap after it, and whether it threw.
Stepped(heap) == [heap |-> heap, threw |-> FALSE]
Threw(heap) == [heap |-> heap, threw |-> TRUE]

\* The prototype chain of a heap object reaches Object.prototype, whose
\* __proto__ accessor the object then inherits.
RECURSIVE InheritsAccessor(_, _)
InheritsAccessor(r, heap) ==
  /\ r.t = "ref"
  /\ r = ObjectPrototypeRef \/ InheritsAccessor(ProtoOfRef(r, heap), heap)

\* cursor[k] = v for a heap object.  The __proto__ setter ignores a value that
\* is neither an object nor null, replaces the prototype otherwise, and throws
\* a TypeError when asked to give Object.prototype a prototype.
AssignRef(heap, r, k, v) ==
  IF k = S___proto__ /\ r = ObjectPrototypeRef
    THEN IF v.t = "ref" THEN Threw(heap) ELSE Stepped(heap)
  ELSE IF k = S___proto__ /\ ~HasOwn(heap[r.id], k) /\ InheritsAccessor(ProtoOfRef(r, heap), heap)
    THEN IF v.t \in {"ref", "null"}
           THEN Stepped([heap EXCEPT ![r.id] =
                           [t |-> "object", entries |-> heap[r.id].entries, proto |-> v]])
           ELSE Stepped(heap)
  ELSE Stepped([heap EXCEPT ![r.id] = DefineProperty(heap[r.id], k, v)])

\* The body of setByPath from the cursor on: the for loop, then the last write.
RECURSIVE setFrom(_, _, _, _)
setFrom(heap, cursor, parts, scalar) ==
  IF Len(parts) = 1 THEN AssignRef(heap, cursor, parts[1], scalar)
  ELSE TheOne({
         IF current.t # "ref"
           THEN TheOne({ IF linked.threw THEN Threw(heap)
                         ELSE setFrom(linked.heap, Ref(Len(heap) + 1), Tail(parts), scalar)
                         : linked \in {AssignRef(Append(heap, Obj(<<>>)), cursor,
                                                 Head(parts), Ref(Len(heap) + 1))} })
           ELSE setFrom(heap, current, Tail(parts), scalar)
         : current \in {GetRef(cursor, Head(parts), heap)} })

setByPath(heap, pathSpec, scalar) ==
  LET parts == PathParts(pathSpec)
  IN  IF Len(parts) = 0 THEN Stepped(heap) ELSE setFrom(heap, OutRef, parts, scalar)

\* The loop of pickByPaths over paths, from path i on.
RECURSIVE pickFrom(_, _, _, _)
pickFrom(value, paths, i, heap) ==
  IF i > Len(paths) THEN Stepped(heap)
  ELSE TheOne({
         IF v = Undefined THEN pickFrom(value, paths, i + 1, heap)
         ELSE TheOne({ IF set.threw THEN set
                       ELSE pickFrom(value, paths, i + 1, set.heap)
                       : set \in {setByPath(heap, paths[i], v)} })
         : v \in {getByPathUnder(value, paths[i], heap)} })

\* The tree of own properties below a heap object.
RECURSIVE Reify(_, _)
Reify(r, heap) ==
  LET o == heap[r.id]
      entries == [i \in DOMAIN o.entries |->
                    <<o.entries[i][1],
                      IF o.entries[i][2].t = "ref" THEN Reify(o.entries[i][2], heap)
                      ELSE o.entries[i][2]>>]
  IN  IF "proto" \in DOMAIN o
        THEN [t |-> "object", entries |-> entries,
              proto |-> IF o.proto.t = "ref" THEN Reify(o.proto, heap) ELSE o.proto]
        ELSE Obj(entries)

\* pickByPaths(value, paths): the object returned and the properties the call
\* left on Object.prototype, or the TypeError it threw.
pickByPaths(value, paths) ==
  TheOne({
    IF picked.threw
      THEN Throw("TypeError: Immutable prototype object", Label("Object.prototype"))
      ELSE [ok |-> TRUE, v |-> Reify(OutRef, picked.heap),
            prototype |-> Reify(ObjectPrototypeRef, picked.heap)]
    : picked \in {pickFrom(value, paths, 1, InitialHeap)} })

----------------------------------------------------------------------------
(* The pickByPaths specification: a value and a list of paths are drawn in *)
(* Init and one action applies pickByPaths to them.                        *)

MaxPaths == 2

PickValues ==
  { v \in PathValues : v.t = "object" }
  \cup
  { \* {"__proto__": {"__proto__": {a: 1}}}, every __proto__ an own property
    Obj(<< <<S___proto__, Obj(<< <<S___proto__, Obj(<< <<K_a, Num(1)>> >>)>> >>)>> >>),
    \* {a: {"__proto__": 5, b: 2}, b: 7}
    Obj(<< <<K_a, Obj(<< <<S___proto__, Num(5)>>, <<K_b, Num(2)>> >>)>>, <<K_b, Num(7)>> >>) }

PickPaths ==
  { K_a,
    K_b,
    K_a \o Dot \o K_b,
    K_a \o Dot \o K_a,
    <<" ", "a", " ", ".", " ", "b", " ">>,
    <<"b", ".", "0">>,
    <<"b", ".", "1", ".", "a">>,
    <<"1", ".", "0">>,
    <<"0", "|", "a">>,
    <<"a", ".", "b", "|", "b">>,
    <<"a", ".", "x">>,
    S___proto__,
    S___proto__ \o Dot \o K_a,
    S___proto__ \o Dot \o S___proto__,
    S___proto__ \o Dot \o S___proto__ \o Dot \o K_a,
    K_a \o Dot \o S___proto__,
    S_constructor }

PickInit ==
  /\ fIn \in [value : PickValues, paths : SeqsUpTo(PickPaths, MaxPaths)]
  /\ fOut = Pending
  /\ ValidateIdle /\ PathIdle /\ BundleIdle /\ ConsumeIdle /\ EmitIdle

Pick ==
  /\ fOut = Pending
  /\ fOut' = pickByPaths(fIn.value, fIn.paths)
  /\ UNCHANGED <<fIn, validateVars, pathVars, bundleVars, consumeVars, emitVars>>

PickNext == Pick

SpecPick == PickInit /\ [][PickNext]_vars

----------------------------------------------------------------------------
(* Properties of pickByPaths (checked under SpecPick).                     *)

Picked == fOut \notin {Pending, Unused}

\* The leaves of a tree: the own properties, at any depth, that hold
\* something other than a non-empty object.
RECURSIVE LeavesOf(_, _)
LeavesOf(o, prefix) ==
  UNION { LET key == o.entries[i][1]
              held == o.entries[i][2]
          IN  IF held.t = "object" /\ held.entries # <<>>
                THEN LeavesOf(held, Append(prefix, key))
                ELSE {[parts |-> Append(prefix, key), value |-> held]}
          : i \in DOMAIN o.entries }

HasLeafAt(o, parts) == \E leaf \in LeavesOf(o, <<>>) : leaf.parts = parts

\* C11: pickByPaths resolves every listed path with the simple-form algorithm
\* only: a listed path that contains '|' is not split into fallback candidates,
\* so it contributes a leaf only if it resolves as one literal dotted path.
C11_NoFallbackSplitting ==
  (Picked /\ fOut.ok) =>
    \A i \in DOMAIN fIn.paths :
      (/\ Contains(fIn.paths[i], "|")
       /\ HasLeafAt(fOut.v, PathParts(fIn.paths[i])))
        => ResolveSimple(fIn.value, fIn.paths[i]) # Undefined

\* C12: for every value and path list, pickByPaths never throws, omits every
\* path that does not resolve to a defined scalar, and returns an object whose
\* leaves are all scalars, each at the dotted position of a listed path and
\* equal to the value that path resolves to in the input; no leaf outside the
\* allow-list appears in the result.
C12_PicksOnlyListedScalars ==
  Picked =>
    /\ fOut.ok
    /\ \A leaf \in LeavesOf(fOut.v, <<>>) :
         /\ isScalar(leaf.value)
         /\ \E i \in DOMAIN fIn.paths :
              /\ PathParts(fIn.paths[i]) = leaf.parts
              /\ getByPath(fIn.value, fIn.paths[i]) = leaf.value
    /\ \A i \in DOMAIN fIn.paths :
         (\A j \in DOMAIN fIn.paths :
            PathParts(fIn.paths[j]) = PathParts(fIn.paths[i])
              => getByPath(fIn.value, fIn.paths[j]) = Undefined)
           => ~HasLeafAt(fOut.v, PathParts(fIn.paths[i]))

----------------------------------------------------------------------------
(* The validateMeta specification: a record is drawn in Init and one action *)
(* applies validateMeta to it.  The records are the good meta with at most  *)
(* MaxDefects of its required fields made absent, empty or of the wrong     *)
(* type, with or without pr_number, event and a key validateMeta ignores.   *)

MaxDefects == 2

DefectKinds == {"absent", "empty", "wrong"}

Defects ==
  UNION { [D -> DefectKinds] :
            D \in {D \in SUBSET DOMAIN RequiredMetaFields : Cardinality(D) <= MaxDefects} }

\* What a required field holds under a defect: schema_version as the string
\* '2' or the number 1, a string field as '' or the number 5.
DefectiveValue(i, kind) ==
  IF i = 1 THEN (IF kind = "empty" THEN Str(<<"2">>) ELSE Num(1))
  ELSE (IF kind = "empty" THEN Str(<<>>) ELSE Num(5))

RequiredEntries(defects) ==
  LET held(i) == IF i \in DOMAIN defects
                   THEN DefectiveValue(i, defects[i])
                   ELSE GetOwn(GoodMeta, RequiredMetaFields[i])
      kept == SelectSeq([i \in DOMAIN RequiredMetaFields |-> i],
                        LAMBDA i : ~(i \in DOMAIN defects /\ defects[i] = "absent"))
  IN  [j \in DOMAIN kept |-> <<RequiredMetaFields[kept[j]], held(kept[j])>>]

PrNumberEntries == { <<>>, << <<S_pr_number, Num(7)>> >>, << <<S_pr_number, Str(<<"7">>)>> >> }

EventEntries ==
  { <<>>,
    << <<S_event, Obj(<< <<K_a, Num(1)>> >>)>> >>,
    << <<S_event, Arr(<<>>)>> >>,
    << <<S_event, Null>> >> }

ExtraEntries == { <<>>, << <<Fresh, Arr(<<Num(1)>>)>> >> }

MetaRecords ==
  { Obj(RequiredEntries(d) \o pr \o ev \o extra) :
      d \in Defects, pr \in PrNumberEntries, ev \in EventEntries, extra \in ExtraEntries }

MetaInit ==
  /\ fIn \in MetaRecords
  /\ fOut = Pending
  /\ ValidateIdle /\ PathIdle /\ BundleIdle /\ ConsumeIdle /\ EmitIdle

ValidateMeta ==
  /\ fOut = Pending
  /\ fOut' = validateMeta(fIn)
  /\ UNCHANGED <<fIn, validateVars, pathVars, bundleVars, consumeVars, emitVars>>

MetaNext == ValidateMeta

SpecMeta == MetaInit /\ [][MetaNext]_vars

----------------------------------------------------------------------------
(* Properties of validateMeta (checked under SpecMeta).                    *)

MetaValidated == fOut \notin {Pending, Unused}

\* The violations of a record, stated on its own keys.
MissingFields == {i \in DOMAIN RequiredMetaFields : ~HasOwn(fIn, RequiredMetaFields[i])}

WrongVersion == HasOwn(fIn, S_schema_version) /\ GetOwn(fIn, S_schema_version) # Num(2)

NonEmptyString(v) == v.t = "string" /\ v.s # <<>>

BadStringFields ==
  {i \in DOMAIN StringMetaFields :
     HasOwn(fIn, StringMetaFields[i]) /\ ~NonEmptyString(GetOwn(fIn, StringMetaFields[i]))}

BadPrNumber == HasOwn(fIn, S_pr_number) /\ GetOwn(fIn, S_pr_number).t # "number"

BadEvent == HasOwn(fIn, S_event) /\ GetOwn(fIn, S_event).t # "object"

Least(S) == CHOOSE i \in S : \A j \in S : i <= j

\* C13: validateMeta raises on the first violation in the order presence (of
\* schema_version and the seven string fields, in declaration order), then
\* schema_version equality, then non-empty string fields (in declaration
\* order), then the optional fields pr_number and event: a missing field wins
\* over a wrong version, a wrong version over an empty string field, and an
\* empty required string is 'Invalid meta field', never 'Missing'.
C13_FirstViolationInOrder ==
  MetaValidated =>
    IF MissingFields # {}
      THEN fOut = Throw("Missing required meta field",
                        Name(RequiredMetaFields[Least(MissingFields)]))
    ELSE IF WrongVersion
      THEN ~fOut.ok /\ fOut.error = "Unsupported schema_version"
    ELSE IF BadStringFields # {}
      THEN fOut = Throw("Invalid meta field", Name(StringMetaFields[Least(BadStringFields)]))
    ELSE IF BadPrNumber
      THEN ~fOut.ok /\ fOut.error = "meta.pr_number must be a number when provided"
    ELSE IF BadEvent
      THEN ~fOut.ok /\ fOut.error = "meta.event must be an object when provided"
    ELSE fOut.ok

\* C13 witnesses: each pair of violations the claim names has been decided.
C13_Witness ==
  /\ MetaValidated
  /\ MissingFields # {} /\ WrongVersion
  /\ fOut.error = "Missing required meta field"

C13_WitnessVersion ==
  /\ MetaValidated
  /\ WrongVersion /\ BadStringFields # {}
  /\ \E i \in BadStringFields : GetOwn(fIn, StringMetaFields[i]) = Str(<<>>)
  /\ fOut.error = "Unsupported schema_version"

\* C14: validateMeta accepts a record if and only if all eight required keys
\* are present, schema_version is exactly the number 2, each of the seven
\* string fields is a non-empty string, pr_number is absent or a number, and
\* event is absent or a non-array object; extra keys never cause rejection and
\* the record is returned as it was given.
C14_AcceptsIffWellFormed ==
  MetaValidated =>
    /\ fOut.ok <=>
         /\ \A i \in DOMAIN RequiredMetaFields : HasOwn(fIn, RequiredMetaFields[i])
         /\ GetOwn(fIn, S_schema_version) = Num(2)
         /\ \A i \in DOMAIN StringMetaFields : NonEmptyString(GetOwn(fIn, StringMetaFields[i]))
         /\ ~HasOwn(fIn, S_pr_number) \/ GetOwn(fIn, S_pr_number).t = "number"
         /\ ~HasOwn(fIn, S_event) \/ GetOwn(fIn, S_event).t = "object"
    /\ fOut.ok => fOut.v = fIn

\* C14 witness: a record with pr_number, event and an extra key is accepted.
C14_Witness ==
  /\ MetaValidated
  /\ fOut.ok
  /\ HasOwn(fIn, S_pr_number) /\ HasOwn(fIn, S_event) /\ HasOwn(fIn, Fresh)

----------------------------------------------------------------------------
(* The normalizeOutputs specification: the members of an object, in the     *)
(* order they were inserted, and a sanitize mode are drawn in Init; one     *)
(* action applies normalizeOutputs to the object with these members.        *)

MaxMembers == 2

MemberKeys == {K_a, K_b, <<"_", "a", "1">>, BadKey, DigitKey, <<>>, S___proto__}

MemberValues ==
  {Num(1), Str(<<"s">>), Str(<<>>), Bool(FALSE), Null,
   Obj(<<>>), Arr(<<>>), Obj(<< <<K_a, Num(1)>> >>)}

MemberLists ==
  {ms \in SeqsUpTo(MemberKeys \X MemberValues, MaxMembers) :
     \A i, j \in DOMAIN ms : i # j => ms[i][1] # ms[j][1]}

\* The object a JSON text with these members parses to: own properties in
\* enumeration order (array-index keys first, ascending, then the others in
\* insertion order).
RECURSIVE FromMembers(_)
FromMembers(ms) ==
  IF ms = <<>> THEN Obj(<<>>)
  ELSE LET last == ms[Len(ms)]
       IN  DefineProperty(FromMembers(SubSeq(ms, 1, Len(ms) - 1)), last[1], last[2])

NormalizeInit ==
  /\ fIn \in [members : MemberLists, sanitize : {"strict", "none"}]
  /\ fOut = Pending
  /\ ValidateIdle /\ PathIdle /\ BundleIdle /\ ConsumeIdle /\ EmitIdle

Normalize ==
  /\ fOut = Pending
  /\ fOut' = normalizeOutputs(FromMembers(fIn.members), fIn.sanitize)
  /\ UNCHANGED <<fIn, validateVars, pathVars, bundleVars, consumeVars, emitVars>>

\* normalizeOutputs(normalizeOutputs(x, 'none'), 'strict'): the strict pass
\* over what the pass without sanitization returned.
Renormalize ==
  /\ fIn.sanitize = "none"
  /\ "ok" \in DOMAIN fOut
  /\ fOut' = [none |-> fOut, strict |-> normalizeOutputs(fOut.v, "strict")]
  /\ UNCHANGED <<fIn, validateVars, pathVars, bundleVars, consumeVars, emitVars>>

NormalizeNext == Normalize \/ Renormalize

SpecNormalize == NormalizeInit /\ [][NormalizeNext]_vars

----------------------------------------------------------------------------
(* Properties of normalizeOutputs (checked under SpecNormalize).           *)

Normalized == "ok" \in DOMAIN fOut

BadOutputKey(member) == ~OUTPUT_KEY_RE(member[1])
BadOutputValue(member) == member[2].t \notin {"string", "number", "boolean", "null"}
Offending == {i \in DOMAIN fIn.members :
                BadOutputKey(fIn.members[i]) \/ BadOutputValue(fIn.members[i])}

\* C15: normalizeOutputs in strict mode throws if and only if some key fails
\* ^[A-Za-z_][A-Za-z0-9_]*$ or some value is not a scalar (objects and arrays,
\* empty ones included); the error names the first offending key in insertion
\* order, with the key-pattern check before the scalar check; when it does not
\* throw it returns a map with exactly the input's keys and values.
C15_StrictNormalization ==
  (Normalized /\ fIn.sanitize = "strict") =>
    /\ ~fOut.ok <=> Offending # {}
    /\ ~fOut.ok =>
         LET first == fIn.members[Least(Offending)]
         IN  fOut = IF BadOutputKey(first)
                      THEN Throw("Invalid output key", Name(first[1]))
                      ELSE Throw("Output must be a scalar value", Name(first[1]))
    /\ fOut.ok =>
         /\ "proto" \notin DOMAIN fOut.v
         /\ Len(fOut.v.entries) = Len(fIn.members)
         /\ \A i \in DOMAIN fIn.members :
              /\ HasOwn(fOut.v, fIn.members[i][1])
              /\ GetOwn(fOut.v, fIn.members[i][1]) = fIn.members[i][2]

----------------------------------------------------------------------------
(* Properties of the bundle writer and of the round trip (checked under    *)
(* SpecBundle).                                                            *)

WriteEnded == bWrite \notin {Pending, Unused}

\* A files entry the writer refuses: absolute, or escaping once normalized.
Refused(filePath) ==
  isAbsolute(filePath) \/ StartsWith(normalize(filePath), DotDot)

\* C16: when the file list given to writeBridgeDirectory contains an absolute
\* path, or a relative path that escapes the workspace after normalization,
\* the call fails with the 'must be relative' / 'may not escape workspace'
\* error and no file of the list has been copied into bridge/files.
C16_RefusedListCopiesNothing ==
  (WriteEnded /\ \E i \in DOMAIN bIn.files : Refused(bIn.files[i])) =>
    /\ ~bWrite.ok
    /\ bWrite.error \in {"files entries must be relative paths",
                         "files entry may not escape workspace"}
    /\ DOMAIN bRoot.filesDir.files = {}

\* C17: for strict-valid outputs and a meta that passes validateMeta,
\* readBridgeDirectory after a writeBridgeDirectory that completed on the same
\* root returns outputs equal to those written and a meta whose required
\* fields equal those written, and every listed file is present under the
\* returned filesDir at its normalized relative path.
C17_RoundTrip ==
  (ReadEnded /\ bWrite.ok /\ ~WrittenOutputsInvalid /\ validateMeta(bIn.meta).ok) =>
    /\ bRead.ok
    /\ Entries(bRead.v.outputs) = Entries(bOutputs.v)
    /\ \A i \in DOMAIN RequiredMetaFields :
         GetOwn(bRead.v.meta, RequiredMetaFields[i]) = GetOwn(bIn.meta, RequiredMetaFields[i])
    /\ bRead.v.filesDir.kind = "dir"
    /\ \A i \in DOMAIN bIn.files : normalize(bIn.files[i]) \in DOMAIN bRead.v.filesDir.files

----------------------------------------------------------------------------
(* Properties of parseAndMergeOutputs (checked under SpecBundle).          *)

Built == bOutputs \notin {Pending, Unused}

\* The two sources as objects, where they are objects.
FileObject == IF bIn.outputsFile = <<>> THEN Obj(<<>>) ELSE JSONparse(bIn.outputsFile).v
InputObject == IF bIn.outputs = <<>> THEN Obj(<<>>) ELSE JSONparse(bIn.outputs).v

IsObjectText(text) ==
  text = <<>> \/ (JSONparse(text).ok /\ JSONparse(text).v.t = "object")

OwnKeys(o) == {o.entries[i][1] : i \in DOMAIN o.entries}

\* C18: before sanitization, the map parseAndMergeOutputs builds has as key set
\* the union of the file object's and the input object's keys, with the input
\* object's value for every key of the input and the file object's value
\* otherwise; an empty text counts as the empty object, and a source that is
\* not a JSON object makes the call fail with an error labelled 'outputs' or
\* 'outputs_file'; what the call returns holds nothing but members of that map.
C18_InputOverridesFile ==
  Built =>
    LET merged == mergedSources(bIn.outputs, bIn.outputsFile)
    IN  /\ ~IsObjectText(bIn.outputsFile) =>
             ~bOutputs.ok /\ bOutputs.about = Label("outputs_file")
        /\ (IsObjectText(bIn.outputsFile) /\ ~IsObjectText(bIn.outputs)) =>
             ~bOutputs.ok /\ bOutputs.about = Label("outputs")
        /\ (IsObjectText(bIn.outputsFile) /\ IsObjectText(bIn.outputs)) =>
             /\ merged.ok
             /\ OwnKeys(merged.v) = OwnKeys(FileObject) \cup OwnKeys(InputObject)
             /\ \A k \in OwnKeys(merged.v) :
                  GetOwn(merged.v, k) = IF HasOwn(InputObject, k)
                                          THEN GetOwn(InputObject, k)
                                          ELSE GetOwn(FileObject, k)
             /\ bOutputs.ok =>
                  \A k \in OwnKeys(bOutputs.v) :
                    HasOwn(merged.v, k) /\ GetOwn(bOutputs.v, k) = GetOwn(merged.v, k)
             /\ (bIn.sanitize = "none" /\ S___proto__ \notin OwnKeys(merged.v)) =>
                  bOutputs = Return(merged.v)

\* C18 witness: both sources are objects with a key in common whose values
\* differ, and the map returned holds the input's value.
C18_Witness ==
  /\ Built
  /\ bOutputs.ok
  /\ bIn.outputs # <<>> /\ bIn.outputsFile # <<>>
  /\ \E k \in OwnKeys(FileObject) \cap OwnKeys(InputObject) :
       /\ GetOwn(FileObject, k) # GetOwn(InputObject, k)
       /\ GetOwn(bOutputs.v, k) = GetOwn(InputObject, k)

----------------------------------------------------------------------------
(* The scratch directory of the consume run (checked under SpecConsume).   *)

RunEnded == cPc \in {"done", "failed"}

\* C19: every consume run that extracted a bundle into a scratch extraction
\* directory has removed that directory by the time the run ends, whether it
\* ends successfully or with a read, validation, restore or extraction error.
C19_ScratchRemovedAtEnd ==
  (RunEnded /\ Called("readBridgeDirectory")) => cTemp = "removed"

----------------------------------------------------------------------------
(* The emit entrypoint (part_003).                                         *)

S_none == <<"n", "o", "n", "e">>
S_minimal == <<"m", "i", "n", "i", "m", "a", "l">>
S_full == <<"f", "u", "l", "l">>
S_strict == <<"s", "t", "r", "i", "c", "t">>
S_artifact == <<"a", "r", "t", "i", "f", "a", "c", "t">>
S_outputs_json == <<"o", "u", "t", "p", "u", "t", "s", "-", "j", "s", "o", "n">>
S_meta_json == <<"m", "e", "t", "a", "-", "j", "s", "o", "n">>
S_pull_request == <<"p", "u", "l", "l", "_", "r", "e", "q", "u", "e", "s", "t">>
S_issue == <<"i", "s", "s", "u", "e">>
S_number == <<"n", "u", "m", "b", "e", "r">>
S_producer_job == <<"p", "r", "o", "d", "u", "c", "e", "r", "_", "j", "o", "b">>

MINIMAL_EVENT_PATHS ==
  << <<"a", "c", "t", "i", "o", "n">>,
     <<"s", "e", "n", "d", "e", "r", ".", "l", "o", "g", "i", "n">>,
     <<"s", "e", "n", "d", "e", "r", ".", "t", "y", "p", "e">>,
     <<"i", "s", "s", "u", "e", ".", "n", "u", "m", "b", "e", "r">>,
     <<"i", "s", "s", "u", "e", ".", "t", "i", "t", "l", "e">>,
     <<"i", "s", "s", "u", "e", ".", "h", "t", "m", "l", "_", "u", "r", "l">>,
     <<"i", "s", "s", "u", "e", ".", "u", "s", "e", "r", ".", "l", "o", "g", "i", "n">>,
     <<"c", "o", "m", "m", "e", "n", "t", ".", "b", "o", "d", "y">>,
     <<"c", "o", "m", "m", "e", "n", "t", ".", "p", "a", "t", "h">>,
     <<"c", "o", "m", "m", "e", "n", "t", ".", "u", "s", "e", "r", ".", "l", "o", "g", "i", "n">>,
     <<"r", "e", "v", "i", "e", "w", ".", "b", "o", "d", "y">>,
     <<"r", "e", "v", "i", "e", "w", ".", "s", "t", "a", "t", "e">>,
     <<"r", "e", "v", "i", "e", "w", ".", "u", "s", "e", "r", ".", "l", "o", "g", "i", "n">>,
     <<"p", "u", "l", "l", "_", "r", "e", "q", "u", "e", "s", "t", ".", "n", "u", "m", "b", "e", "r">>,
     <<"p", "u", "l", "l", "_", "r", "e", "q", "u", "e", "s", "t", ".", "t", "i", "t", "l", "e">>,
     <<"p", "u", "l", "l", "_", "r", "e", "q", "u", "e", "s", "t", ".", "h", "t", "m", "l", "_", "u", "r", "l">>,
     <<"p", "u", "l", "l", "_", "r", "e", "q", "u", "e", "s", "t", ".", "u", "s", "e", "r", ".", "l", "o", "g", "i", "n">>,
     <<"p", "u", "l", "l", "_", "r", "e", "q", "u", "e", "s", "t", ".", "b", "a", "s", "e", ".", "r", "e", "f">>,
     <<"p", "u", "l", "l", "_", "r", "e", "q", "u", "e", "s", "t", ".", "b", "a", "s", "e", ".", "s", "h", "a">>,
     <<"p", "u", "l", "l", "_", "r", "e", "q", "u", "e", "s", "t", ".", "b", "a", "s", "e", ".", "r", "e", "p", "o", ".", "f", "u", "l", "l", "_", "n", "a", "m", "e">>,
     <<"p", "u", "l", "l", "_", "r", "e", "q", "u", "e", "s", "t", ".", "h", "e", "a", "d", ".", "r", "e", "f">>,
     <<"p", "u", "l", "l", "_", "r", "e", "q", "u", "e", "s", "t", ".", "h", "e", "a", "d", ".", "s", "h", "a">>,
     <<"p", "u", "l", "l", "_", "r", "e", "q", "u", "e", "s", "t", ".", "h", "e", "a", "d", ".", "r", "e", "p", "o", ".", "f", "u", "l", "l", "_", "n", "a", "m", "e">> >>

\* parseLines(value)
parseLines(value) == TrimAndFilter(SplitLines(value))

\* parseEventMode(value)
parseEventMode(value) ==
  LET normalized == OrElse(Str(Trim(value)), Str(S_minimal)).s
  IN  IF normalized \in {S_none, S_minimal, S_full} THEN Return(normalized)
      ELSE Throw("Invalid include_event mode", Name(value))

\* buildEventMeta(mode, eventFieldsRaw) over context.payload: undefined, the
\* payload, or what pickByPaths returns (or throws).
buildEventMeta(mode, eventFieldsRaw, payload) ==
  LET eventFields == parsePathList(eventFieldsRaw)
  IN  IF Len(eventFields) > 0 THEN pickByPaths(payload, eventFields)
      ELSE IF mode = S_none THEN Return(Undefined)
      ELSE IF mode = S_full THEN Return(payload)
      ELSE pickByPaths(payload, MINIMAL_EVENT_PATHS)

\* buildBridgeMeta without the spread of extraMeta
buildBridgeMeta_NoExtra(producer, extraMeta, now) ==
  Obj(<< <<S_schema_version, Num(SCHEMA_VERSION)>>,
         <<S_repository, Str(producer.repository)>>,
         <<S_workflow_name, Str(producer.workflowName)>>,
         <<S_workflow_run_id, Str(producer.runId)>>,
         <<S_workflow_run_attempt, Str(producer.runAttempt)>>,
         <<S_event_name, Str(producer.eventName)>>,
         <<S_head_sha, Str(producer.headSha)>>,
         <<S_created_at, Str(now)>> >>
      \o (IF TypeOf(producer.prNumber) = "number"
            THEN << <<S_pr_number, producer.prNumber>> >> ELSE <<>>)
      \o (IF ~Falsy(producer.producerJob)
            THEN << <<S_producer_job, producer.producerJob>> >> ELSE <<>>))

\* buildBridgeMeta(producer, extraMeta); now is new Date().toISOString()
buildBridgeMeta(producer, extraMeta, now) ==
  Spread(
    Obj(<< <<S_schema_version, Num(SCHEMA_VERSION)>>,
           <<S_repository, Str(producer.repository)>>,
           <<S_workflow_name, Str(producer.workflowName)>>,
           <<S_workflow_run_id, Str(producer.runId)>>,
           <<S_workflow_run_attempt, Str(producer.runAttempt)>>,
           <<S_event_name, Str(producer.eventName)>>,
           <<S_head_sha, Str(producer.headSha)>>,
           <<S_created_at, Str(now)>> >>
        \o (IF TypeOf(producer.prNumber) = "number"
              THEN << <<S_pr_number, producer.prNumber>> >> ELSE <<>>)
        \o (IF ~Falsy(producer.producerJob)
              THEN << <<S_producer_job, producer.producerJob>> >> ELSE <<>>)),
    extraMeta)

\* a?.number
OptionalNumber(a) == IF a.t \in {"null", "undefined"} THEN Undefined ELSE Get(a, S_number)

\* a ?? b
Coalesce(a, b) == IF a.t \in {"null", "undefined"} THEN b ELSE a

\* The producer context run builds from the environment and the payload.
ProducerContext(in) ==
  [repository |-> in.repository,
   workflowName |-> in.workflow,
   runId |-> in.runId,
   runAttempt |-> OrElse(Str(in.runAttempt), Str(<<"1">>)).s,
   eventName |-> in.eventName,
   headSha |-> in.sha,
   prNumber |-> Coalesce(OptionalNumber(Get(in.payload, S_pull_request)),
                         OptionalNumber(Get(in.payload, S_issue))),
   producerJob |-> in.job]

\* userMeta: {} unless the meta input is non-empty
UserMeta(metaRaw) ==
  IF metaRaw # <<>> THEN parseJsonObject(metaRaw, "meta") ELSE Return(Obj(<<>>))

\* { ...userMeta, ...(eventMeta ? { event: eventMeta } : {}) }
ExtraMeta(userMeta, eventMeta) ==
  Spread(userMeta,
         IF Falsy(eventMeta) THEN Obj(<<>>) ELSE Obj(<< <<S_event, eventMeta>> >>))

\* The sanitize argument of the run as normalizeOutputs compares it
SanitizeOf(input) ==
  LET sanitize == OrElse(Str(input), Str(S_strict)).s
  IN  IF sanitize = S_strict THEN "strict" ELSE IF sanitize = S_none THEN "none" ELSE "other"

\* The options object passed to uploadArtifact
UploadOptions(retentionRaw) ==
  LET retentionDays == IF retentionRaw # <<>> THEN Number(retentionRaw) ELSE NotAnInteger
  IN  IF retentionDays.isInteger /\ retentionDays.n # 0
        THEN [retentionDays |-> retentionDays.n]
        ELSE [none |-> TRUE]

Call(operation) == [op |-> operation]

\* The three outputs a completed run sets, in order
EmitOutputs(artifactName, outputs, bridgeMeta) ==
  << setOutput(S_artifact, Text(artifactName)),
     setOutput(S_outputs_json, Json(JSONstringify(outputs))),
     setOutput(S_meta_json, Json(JSONstringify(bridgeMeta))) >>

----------------------------------------------------------------------------
(* Inputs of the emit run.                                                 *)

Payloads ==
  { Obj(<<>>),
    \* {"action": "opened", "issue": {"number": 7, "title": "t", "body": "x"}, "sender": {"login": "u", "id": 1}}
    Obj(<<<<<<"a", "c", "t", "i", "o", "n">>, Str(<<"o", "p", "e", "n", "e", "d">>)>>, <<<<"i", "s", "s", "u", "e">>, Obj(<<<<<<"n", "u", "m", "b", "e", "r">>, Num(7)>>, <<<<"t", "i", "t", "l", "e">>, Str(<<"t">>)>>, <<<<"b", "o", "d", "y">>, Str(<<"x">>)>>>>)>>, <<<<"s", "e", "n", "d", "e", "r">>, Obj(<<<<<<"l", "o", "g", "i", "n">>, Str(<<"u">>)>>, <<<<"i", "d">>, Num(1)>>>>)>>>>),
    \* {"pull_request": {"number": 5, "head": {"sha": "h"}, "body": "b"}, "token": "s"}
    Obj(<<<<<<"p", "u", "l", "l", "_", "r", "e", "q", "u", "e", "s", "t">>, Obj(<<<<<<"n", "u", "m", "b", "e", "r">>, Num(5)>>, <<<<"h", "e", "a", "d">>, Obj(<<<<<<"s", "h", "a">>, Str(<<"h">>)>>>>)>>, <<<<"b", "o", "d", "y">>, Str(<<"b">>)>>>>)>>, <<<<"t", "o", "k", "e", "n">>, Str(<<"s">>)>>>>) }

MetaTexts ==
  { <<>>,
    \* {"event": {"x": 1}}
    JSONstringify(Obj(<<<<<<"e", "v", "e", "n", "t">>, Obj(<<<<<<"x">>, Num(1)>>>>)>>>>)),
    \* {"event": "s", "note": "n"}
    JSONstringify(Obj(<<<<<<"e", "v", "e", "n", "t">>, Str(<<"s">>)>>, <<<<"n", "o", "t", "e">>, Str(<<"n">>)>>>>)),
    \* {"schema_version": 1, "head_sha": "u"}
    JSONstringify(Obj(<<<<<<"s", "c", "h", "e", "m", "a", "_", "v", "e", "r", "s", "i", "o", "n">>, Num(1)>>, <<<<"h", "e", "a", "d", "_", "s", "h", "a">>, Str(<<"u">>)>>>>)),
    JSONstringify(Arr(<<Num(1)>>)),
    <<Punct("{")>> }

IncludeEventTexts == {<<>>, S_none, S_minimal, S_full, <<" ", "n", "o", "n", "e", " ">>, <<"a", "l", "l">>}
EventFieldsTexts == {<<>>, <<"a", "c", "t", "i", "o", "n">>, <<"i", "s", "s", "u", "e", ".", "b", "o", "d", "y", ",", "s", "e", "n", "d", "e", "r", ".", "i", "d">>, <<"n", "o", "p", "e">>}
SanitizeTexts == {<<>>, S_strict, S_none, <<"l", "o", "o", "s", "e">>}
FilesTexts == {<<>>, <<"r", ".", "t">>, <<"r", ".", "t", "\n", "/", "r">>}
RetentionTexts == {<<>>, <<"5">>}

EmitOutputsTexts ==
  { <<>>,
    ObjectText(<< <<K_a, Num(1)>> >>),
    ObjectText(<< <<BadKey, Num(1)>> >>) }

\* A run with every input left empty, on the empty payload.
EmitBase ==
  [artifact |-> <<>>, outputs |-> <<>>, outputsFile |-> <<>>, files |-> <<>>,
   retention |-> <<>>, sanitize |-> <<>>, meta |-> <<>>, includeEvent |-> <<>>,
   eventFields |-> <<>>, payload |-> Obj(<<>>), repository |-> RepoA,
   workflow |-> WorkflowA, runId |-> RunA, runAttempt |-> <<>>, eventName |-> EventA,
   sha |-> ShaA, job |-> Str(<<"j">>), now |-> CreatedA]

\* The runs that differ in what decides the meta, and the runs that differ in
\* what decides the outputs, the staged files and the upload.
EmitInputs ==
  { [EmitBase EXCEPT !.meta = m, !.includeEvent = mode, !.eventFields = fields,
                     !.payload = payload] :
      m \in MetaTexts, mode \in IncludeEventTexts, fields \in EventFieldsTexts,
      payload \in Payloads }
  \cup
  { [EmitBase EXCEPT !.outputs = o, !.sanitize = sanitize, !.files = files,
                     !.retention = retention, !.artifact = name] :
      o \in EmitOutputsTexts, sanitize \in SanitizeTexts, files \in FilesTexts,
      retention \in RetentionTexts, name \in {<<>>, <<"b">>} }

----------------------------------------------------------------------------
(* The emit run: read the inputs, build the outputs map, build the meta,   *)
(* stage the bundle directory, upload it, set the action outputs.  A stage *)
(* that throws ends the run.                                               *)

EmitInit ==
  /\ eIn \in EmitInputs
  /\ ePc = "start"
  /\ eOutputs = Pending
  /\ eMeta = Pending
  /\ eRoot = EmptyRoot
  /\ eCalls = <<>>
  /\ eLog = <<>>
  /\ eError = NoError
  /\ ValidateIdle /\ PathIdle /\ BundleIdle /\ ConsumeIdle /\ FunIdle

EmitFail(error) == ePc' = "failed" /\ eError' = error

EmitStart ==
  /\ ePc = "start"
  /\ \E mode \in {parseEventMode(OrElse(Str(eIn.includeEvent), Str(S_minimal)).s)} :
       IF mode.ok THEN ePc' = "payload" /\ UNCHANGED eError ELSE EmitFail(mode)
  /\ UNCHANGED <<eIn, eOutputs, eMeta, eRoot, eCalls, eLog,
                 validateVars, pathVars, bundleVars, consumeVars, funVars>>

BuildPayload ==
  /\ ePc = "payload"
  /\ \E parsed \in {parseAndMergeOutputs(eIn.outputs, eIn.outputsFile,
                                          SanitizeOf(eIn.sanitize))} :
       IF parsed.ok
         THEN eOutputs' = parsed.v /\ ePc' = "meta" /\ UNCHANGED eError
         ELSE EmitFail(parsed) /\ UNCHANGED eOutputs
  /\ UNCHANGED <<eIn, eMeta, eRoot, eCalls, eLog,
                 validateVars, pathVars, bundleVars, consumeVars, funVars>>

BuildMeta ==
  /\ ePc = "meta"
  /\ \E userMeta \in {UserMeta(eIn.meta)},
        eventMeta \in {buildEventMeta(
                         parseEventMode(OrElse(Str(eIn.includeEvent), Str(S_minimal)).s).v,
                         eIn.eventFields, eIn.payload)} :
       IF ~userMeta.ok THEN EmitFail(userMeta) /\ UNCHANGED eMeta
       ELSE IF ~eventMeta.ok THEN EmitFail(eventMeta) /\ UNCHANGED eMeta
       ELSE \E extraMeta \in {ExtraMeta(userMeta.v, eventMeta.v)} :
              /\ eMeta' = buildBridgeMeta(ProducerContext(eIn), extraMeta, eIn.now)
              /\ ePc' = "stage"
              /\ UNCHANGED eError
  /\ UNCHANGED <<eIn, eOutputs, eRoot, eCalls, eLog,
                 validateVars, pathVars, bundleVars, consumeVars, funVars>>

\* The staging step with a failure of writeBridgeDirectory ignored
StageArtifact_IgnoreFailure ==
  /\ ePc = "stage"
  /\ eCalls' = eCalls \o <<Call("mkdtemp"), Call("writeBridgeDirectory")>>
  /\ \E w \in {writeBridgeDirectory(eRoot, eOutputs, eMeta, parseLines(eIn.files),
                                     Workspace)} :
       /\ eRoot' = w.root
       /\ ePc' = "upload" /\ UNCHANGED eError
  /\ UNCHANGED <<eIn, eOutputs, eMeta, eLog,
                 validateVars, pathVars, bundleVars, consumeVars, funVars>>

StageArtifact ==
  /\ ePc = "stage"
  /\ eCalls' = eCalls \o <<Call("mkdtemp"), Call("writeBridgeDirectory")>>
  /\ \E w \in {writeBridgeDirectory(eRoot, eOutputs, eMeta, parseLines(eIn.files),
                                     Workspace)} :
       /\ eRoot' = w.root
       /\ IF w.result.ok THEN ePc' = "upload" /\ UNCHANGED eError ELSE EmitFail(w.result)
  /\ UNCHANGED <<eIn, eOutputs, eMeta, eLog,
                 validateVars, pathVars, bundleVars, consumeVars, funVars>>

UploadArtifact ==
  /\ ePc = "upload"
  /\ eCalls' = Append(eCalls, [op |-> "uploadArtifact",
                               name |-> OrElse(Str(eIn.artifact), Str(S_bridge)).s,
                               options |-> UploadOptions(eIn.retention)])
  /\ \/ ePc' = "outputs" /\ UNCHANGED eError
     \/ EmitFail(Throw("upload failed", Label("uploadArtifact")))
  /\ UNCHANGED <<eIn, eOutputs, eMeta, eRoot, eLog,
                 validateVars, pathVars, bundleVars, consumeVars, funVars>>

SetOutputs ==
  /\ ePc = "outputs"
  /\ eLog' = EmitOutputs(OrElse(Str(eIn.artifact), Str(S_bridge)).s, eOutputs, eMeta)
  /\ ePc' = "done"
  /\ UNCHANGED <<eIn, eOutputs, eMeta, eRoot, eCalls, eError,
                 validateVars, pathVars, bundleVars, consumeVars, funVars>>

EmitNext ==
  EmitStart \/ BuildPayload \/ BuildMeta \/ StageArtifact \/ UploadArtifact \/ SetOutputs

SpecEmit == EmitInit /\ [][EmitNext]_vars

----------------------------------------------------------------------------
(* Properties of the emit run (checked under SpecEmit).                    *)

MetaBuilt == eMeta \notin {Pending, Unused}

\* The event selection of the run: what buildEventMeta returned.
SelectedEvent ==
  buildEventMeta(parseEventMode(OrElse(Str(eIn.includeEvent), Str(S_minimal)).s).v,
                 eIn.eventFields, eIn.payload).v

\* C20: in an emit run the event field enters the bundle metadata only through
\* the event selection: the emitted meta has an event field only if the
\* selection returned one, and then it holds the selection and not what the
\* meta input says; with include_event none and no event_fields the emitted
\* meta has no event field whatever the meta input contains.
C20_EventOnlyFromSelection ==
  MetaBuilt =>
    IF SelectedEvent = Undefined
      THEN ~HasOwn(eMeta, S_event)
      ELSE HasOwn(eMeta, S_event) /\ GetOwn(eMeta, S_event) = SelectedEvent

----------------------------------------------------------------------------
(* The buildBridgeMeta specification: a producer context and an extraMeta   *)
(* record are drawn in Init and one action applies buildBridgeMeta to them. *)
(* extraMeta holds at most MaxExtraKeys of the entries of ExtraPool.        *)

MaxExtraKeys == 2

ExtraPool ==
  { <<S_schema_version, Num(1)>>,
    <<S_repository, Str(Other)>>,
    <<S_created_at, Null>>,
    <<S_pr_number, Num(9)>>,
    <<S_producer_job, Str(<<"x">>)>>,
    <<S_event, Obj(<< <<K_a, Num(1)>> >>)>>,
    <<Fresh, Arr(<<Num(1)>>)>>,
    <<DigitKey, Undefined>> }

\* The sequences of pool entries with distinct keys
ExtraMetas ==
  { Obj(es) : es \in { es \in SeqsUpTo(ExtraPool, MaxExtraKeys) :
                         \A i, j \in DOMAIN es : es[i][1] = es[j][1] => i = j } }

ProducerContexts ==
  [repository : {RepoA}, workflowName : {WorkflowA}, runId : {RunA},
   runAttempt : {AttemptA}, eventName : {EventA}, headSha : {ShaA, ShaB},
   prNumber : {Undefined, Num(0), Num(5)},
   producerJob : {Undefined, Str(<<>>), Str(<<"j">>)}]

BuildMetaInit ==
  /\ fIn \in [producer : ProducerContexts, extraMeta : ExtraMetas, now : {CreatedA}]
  /\ fOut = Pending
  /\ ValidateIdle /\ PathIdle /\ BundleIdle /\ ConsumeIdle /\ EmitIdle

BuildBridgeMeta ==
  /\ fOut = Pending
  /\ fOut' = buildBridgeMeta(fIn.producer, fIn.extraMeta, fIn.now)
  /\ UNCHANGED <<fIn, validateVars, pathVars, bundleVars, consumeVars, emitVars>>

BuildMetaNext == BuildBridgeMeta

SpecBuildMeta == BuildMetaInit /\ [][BuildMetaNext]_vars

----------------------------------------------------------------------------
(* Properties of buildBridgeMeta (checked under SpecBuildMeta).            *)

BridgeMetaBuilt == fOut \notin {Pending, Unused}

\* What the producer context and the clock give for the required fields, in
\* the order of RequiredMetaFields.
FromProducer ==
  << Num(2), Str(fIn.producer.repository), Str(fIn.producer.workflowName),
     Str(fIn.producer.runId), Str(fIn.producer.runAttempt),
     Str(fIn.producer.eventName), Str(fIn.producer.headSha), Str(fIn.now) >>

----------------------------------------------------------------------------
(* The parseExtractMappings specification: the text is at most             *)
(* MaxExtractLines lines of ExtractLines joined by a line break, and one    *)
(* action applies parseExtractMappings to it.                              *)

MaxExtractLines == 3

ExtractLines ==
  { <<>>,
    <<" ">>,
    <<"a", "=", "b">>,
    <<" ", "a", " ", "=", " ", "b", " ">>,
    <<"a", "=", "c", ".", "d">>,
    <<"_", "x", "1", "=", "o", "=", "p">>,
    <<"a", "=", " ", "=">>,
    <<"=", "b">>,
    <<" ", "=", "b">>,
    <<"a", "=">>,
    <<"a", "=", " ">>,
    <<"a">>,
    <<"1", "=", "b">>,
    <<"a", " ", "b", "=", "c">> }

LineBreaks == { <<"\n">>, <<"\r", "\n">> }

ExtractRaws ==
  { JoinStrings(lines, br) : lines \in SeqsUpTo(ExtractLines, MaxExtractLines),
                             br \in LineBreaks }

ExtractInit ==
  /\ fIn \in ExtractRaws
  /\ fOut = Pending
  /\ ValidateIdle /\ PathIdle /\ BundleIdle /\ ConsumeIdle /\ EmitIdle

ParseExtract ==
  /\ fOut = Pending
  /\ fOut' = parseExtractMappings(fIn)
  /\ UNCHANGED <<fIn, validateVars, pathVars, bundleVars, consumeVars, emitVars>>

ExtractNext == ParseExtract

SpecExtract == ExtractInit /\ [][ExtractNext]_vars

----------------------------------------------------------------------------
(* Properties of parseExtractMappings (checked under SpecExtract).         *)

ExtractParsed == fOut \notin {Pending, Unused}

\* The non-blank lines of the text, trimmed
NonBlankLines == TrimAndFilter(SplitLines(fIn))

BeforeFirstEq(line) == SubSeq(line, 1, IndexOf(line, "="))
AfterFirstEq(line) == SubSeq(line, IndexOf(line, "=") + 2, Len(line))

Malformed(line) ==
  \/ ~Contains(line, "=")
  \/ line[1] = "="
  \/ line[Len(line)] = "="
  \/ ~OUTPUT_KEY_RE(Trim(BeforeFirstEq(line)))

\* C22: parseExtractMappings either throws or returns exactly one mapping per
\* non-blank line, in line order and with duplicate names retained, each with
\* a name matching the key pattern and a non-empty trimmed path (everything
\* after the first '='); it throws, returning no partial list, if any line
\* has no '=', starts with '=', ends with '=' or has an invalid name; blank
\* or whitespace-only text yields the empty list.
C22_OneMappingPerLine ==
  ExtractParsed =>
    /\ (\E i \in DOMAIN NonBlankLines : Malformed(NonBlankLines[i])) => ~fOut.ok
    /\ fOut.ok =>
         /\ Len(fOut.v) = Len(NonBlankLines)
         /\ \A i \in DOMAIN fOut.v :
              /\ fOut.v[i].name = Trim(BeforeFirstEq(NonBlankLines[i]))
              /\ OUTPUT_KEY_RE(fOut.v[i].name)
              /\ fOut.v[i].path = Trim(AfterFirstEq(NonBlankLines[i]))
              /\ fOut.v[i].path # <<>>
    /\ Trim(fIn) = <<>> => fOut = Return(<<>>)

\* Three lines, one of them blank, two of them with the same name: two
\* mappings, in line order, the second path holding a further '='.
C22_Witness ==
  /\ ExtractParsed /\ fOut.ok
  /\ Len(SplitLines(fIn)) = 3 /\ Len(fOut.v) = 2
  /\ fOut.v[1].name = fOut.v[2].name
  /\ fOut.v[1].path # fOut.v[2].path
  /\ Contains(fOut.v[2].path, "=")

\* A line is refused when its first '=' is absent, first or last, or when the
\* text before it is not a valid name.
RefusedLine(line) ==
  \/ ~Contains(line, "=")
  \/ IndexOf(line, "=") = 0
  \/ IndexOf(line, "=") = Len(line) - 1
  \/ ~OUTPUT_KEY_RE(Trim(BeforeFirstEq(line)))

\* C22 (amended): parseExtractMappings throws, returning no partial list,
\* exactly when some non-blank trimmed line has no '=', starts with '=', has
\* its first '=' as its last character, or has an invalid name; a line that
\* ends with '=' after an earlier '=' is a mapping whose path ends with '='.
\* Otherwise it returns exactly one mapping per non-blank line, in line order
\* and with duplicate names retained, each with a valid name and the
\* non-empty trimmed text after the first '=' as its path; blank or
\* whitespace-only text yields the empty list.
C22_FirstEqDecides ==
  ExtractParsed =>
    /\ fOut.ok <=> ~\E i \in DOMAIN NonBlankLines : RefusedLine(NonBlankLines[i])
    /\ fOut.ok =>
         /\ Len(fOut.v) = Len(NonBlankLines)
         /\ \A i \in DOMAIN fOut.v :
              /\ fOut.v[i].name = Trim(BeforeFirstEq(NonBlankLines[i]))
              /\ OUTPUT_KEY_RE(fOut.v[i].name)
              /\ fOut.v[i].path = Trim(AfterFirstEq(NonBlankLines[i]))
              /\ fOut.v[i].path # <<>>
    /\ Trim(fIn) = <<>> => fOut = Return(<<>>)

----------------------------------------------------------------------------
(* Properties of the expose stage of the consume run (checked under        *)
(* SpecConsume).                                                           *)

ExposeMode == Prologue(cIn).v.expose

\* The sinks an emission is written to under an expose mode, in call order
Sinks(expose) ==
  IF expose = S_both THEN <<"output", "env">>
  ELSE IF expose = S_env THEN <<"env">>
  ELSE <<"output">>

ParsedMappings == parseExtractMappings(cIn.extract)

\* What a mapping's path resolves to against { outputs, meta, event }
Resolution(m) == getByPath(ExtractionSource(cBridge.outputs, cBridge.meta), m.path)

ResolvingMappings == SelectSeq(ParsedMappings.v, LAMBDA m : Resolution(m) # Undefined)

EmittedText(v) == Text(IF v = Null THEN S_null ELSE String(v))

\* The value a sink holds under a name after the calls of a log: that of the
\* last call for the name.
LastWrite(log, sink, name) ==
  LET hits == {i \in DOMAIN log : log[i].sink = sink /\ log[i].name = name}
  IN  log[CHOOSE i \in hits : \A j \in hits : j <= i].value

\* C23: in a consume run whose mappings parse, the expose stage raises no
\* error and emits the per-key bridge outputs first and then, in mapping
\* order, one emission per mapping whose path resolves against
\* { outputs, meta, event: meta.event or {} }: a mapping that resolves to
\* undefined emits nothing, null is emitted as the text 'null', and when two
\* emissions use the same name the later one is the last write.
C23_ExtractedAfterKeys ==
  [][ (cPc = "expose" /\ cPc' # "expose" /\ ParsedMappings.ok) =>
        LET sinks == Sinks(ExposeMode)
            w == Len(sinks)
            keys == Entries(cBridge.outputs)
            nk == Len(keys) * w
            rs == ResolvingMappings
        IN  /\ cPc' = "summary"
            /\ Len(cLog') = Len(cLog) + nk + Len(rs) * w
            /\ \A i \in DOMAIN keys, s \in 1..w :
                 /\ cLog'[Len(cLog) + (i - 1) * w + s].sink = sinks[s]
                 /\ cLog'[Len(cLog) + (i - 1) * w + s].name = Name(cIn.prefix \o keys[i][1])
            /\ \A j \in DOMAIN rs, s \in 1..w :
                 /\ cLog'[Len(cLog) + nk + (j - 1) * w + s] =
                      [sink |-> sinks[s], name |-> Name(rs[j].name),
                       value |-> EmittedText(Resolution(rs[j]))]
                 /\ (\A k \in (j + 1)..Len(rs) : rs[k].name # rs[j].name) =>
                      LastWrite(cLog', sinks[s], Name(rs[j].name)) =
                        EmittedText(Resolution(rs[j]))
    ]_vars

\* The expose stage has run on three mappings of which the middle one did not
\* resolve; the first resolved to null, was emitted as 'null' under the name
\* of a bridge output key, and was overwritten by the third.
C23_Witness ==
  /\ cPc = "summary"
  /\ Len(ParsedMappings.v) = 3 /\ Len(ResolvingMappings) = 2
  /\ Resolution(ParsedMappings.v[1]) = Null
  /\ \E i, j, k \in DOMAIN cLog :
       /\ i < j /\ j < k
       /\ cLog[i].name = cLog[j].name /\ cLog[j].name = cLog[k].name
       /\ cLog[i].sink = cLog[j].sink /\ cLog[j].sink = cLog[k].sink
       /\ cLog[i].value = Text(Answer)
       /\ cLog[j].value = Text(S_null)
       /\ cLog[k].value = Text(ShaA)

\* The names under which a sink has been written by the expose stage (the
\* summary outputs have fixed labels, not computed names).
NamesWritten(sink) ==
  {cLog[i].name : i \in {i \in DOMAIN cLog : cLog[i].sink = sink /\ "name" \in DOMAIN cLog[i].name}}

KeyNames == {Name(cIn.prefix \o Entries(cBridge.outputs)[i][1]) : i \in DOMAIN Entries(cBridge.outputs)}

ExtractedNames == {Name(ResolvingMappings[j].name) : j \in DOMAIN ResolvingMappings}

SummaryLabels == <<"outputs-json", "meta-json", "event-json", "files-path">>

\* The expose input as parseExposeMode reads it
ExposeText == Trim(IF cIn.expose # <<>> THEN cIn.expose ELSE S_outputs)

\* C24: in a consume run each bridge output key k is written under the name
\* prefix+k, to step outputs iff expose is 'outputs' or 'both' and to
\* environment variables iff expose is 'env' or 'both'; extracted values
\* follow the same gating but are never prefixed; a completed run that found
\* its bundle always writes outputs-json, meta-json, event-json and
\* files-path as step outputs whatever expose is; any other expose value
\* fails the run before any download.
C24_ExposeGating ==
  /\ cPc \in {"summary", "done"} /\ cBridge \notin {Pending, NoBridge} =>
       /\ NamesWritten("output") =
            (IF ExposeMode \in {S_outputs, S_both} THEN KeyNames \cup ExtractedNames ELSE {})
       /\ NamesWritten("env") =
            (IF ExposeMode \in {S_env, S_both} THEN KeyNames \cup ExtractedNames ELSE {})
  /\ cPc = "done" /\ cBridge \notin {Pending, NoBridge} =>
       /\ Len(cLog) >= 4
       /\ \A i \in 1..4 :
            /\ cLog[Len(cLog) - 4 + i].sink = "output"
            /\ cLog[Len(cLog) - 4 + i].name = Label(SummaryLabels[i])
  /\ ~(ExposeText \in {S_outputs, S_env, S_both}) =>
       /\ cPc \in {"start", "failed"}
       /\ cCalls = <<>>

\* A completed run with expose=env and a prefix: the bridge key a is an
\* environment variable under the prefixed name, the extracted value y under
\* its own name, and nothing but the four summary outputs is a step output.
C24_Witness ==
  /\ cPc = "done"
  /\ ExposeMode = S_env /\ cIn.prefix # <<>>
  /\ Name(cIn.prefix \o K_a) \in NamesWritten("env")
  /\ Name(S_y) \in NamesWritten("env")
  /\ ~(Name(cIn.prefix \o S_y) \in NamesWritten("env"))
  /\ NamesWritten("output") = {}
  /\ Len(SelectSeq(cLog, LAMBDA c : c.sink = "output")) = 4

\* A run with an expose value that is not a mode has failed.
C24_WitnessInvalid ==
  /\ cPc = "failed"
  /\ cIn.expose # <<>> /\ ~(ExposeText \in {S_outputs, S_env, S_both})
  /\ cError.error = "Invalid expose mode"

----------------------------------------------------------------------------
(* The restoreBridgeFiles specification: a source, a destination and what   *)
(* the file system does are drawn in Init and one action applies           *)
(* restoreBridgeFiles to them.                                             *)

RestoreSources ==
  { NoDir, NotADir, Dir(NoFiles), ReportFiles,
    Dir((F_report :> "report") @@ (F_nested :> "nested")) }

RestoreDestinations ==
  Destinations \cup { Dir(NoFiles), Dir((F_nested :> "old") @@ (F_missing :> "kept")) }

RestoreInit ==
  /\ fIn \in { [filesDir |-> src, destination |-> dst, io |-> io] :
                 src \in RestoreSources, dst \in RestoreDestinations,
                 io \in UNION {RestoreOutcomes(src) : src \in RestoreSources} }
  /\ fIn.io \in RestoreOutcomes(fIn.filesDir)
  /\ fOut = Pending
  /\ ValidateIdle /\ PathIdle /\ BundleIdle /\ ConsumeIdle /\ EmitIdle

Restore ==
  /\ fOut = Pending
  /\ fOut' = restoreBridgeFiles(fIn.filesDir, fIn.destination, fIn.io)
  /\ UNCHANGED <<fIn, validateVars, pathVars, bundleVars, consumeVars, emitVars>>

RestoreNext == Restore

SpecRestore == RestoreInit /\ [][RestoreNext]_vars

----------------------------------------------------------------------------
(* Properties of restoreBridgeFiles (checked under SpecRestore).           *)

RestoreEnded == fOut \notin {Pending, Unused}

\* The file system performs what restoreBridgeFiles asks of it: stat answers
\* (or reports ENOENT), and for a source directory mkdir and cp succeed.
FileSystemServes ==
  /\ fIn.io.statOk
  /\ fIn.filesDir.kind = "dir" => fIn.io.cpOk /\ fIn.destination.kind # "file"

C25_WitnessAbsent ==
  /\ RestoreEnded /\ FileSystemServes
  /\ fIn.filesDir = NoDir /\ fIn.destination = NoDir
  /\ fOut = [dest |-> NoDir, result |-> Return(FALSE)]

\* The include_event input as parseEventMode reads it
EventModeText == OrElse(Str(Trim(OrElse(Str(eIn.includeEvent), Str(S_minimal)).s)), Str(S_minimal)).s

\* C26: the event stored by emit is pickByPaths(payload, event_fields) when
\* event_fields lists at least one path, whatever include_event is; otherwise
\* include_event none stores no event, full stores the whole payload, and
\* minimal (also the default for an empty input) stores
\* pickByPaths(payload, MINIMAL_EVENT_PATHS); any other include_event value
\* fails the run before anything is staged or uploaded.
C26_EventSelection ==
  /\ MetaBuilt =>
       IF Len(parsePathList(eIn.eventFields)) > 0
         THEN /\ HasOwn(eMeta, S_event)
              /\ GetOwn(eMeta, S_event) = pickByPaths(eIn.payload, parsePathList(eIn.eventFields)).v
       ELSE IF EventModeText = S_none
         THEN ~HasOwn(eMeta, S_event)
       ELSE IF EventModeText = S_full
         THEN HasOwn(eMeta, S_event) /\ GetOwn(eMeta, S_event) = eIn.payload
       ELSE /\ HasOwn(eMeta, S_event)
            /\ GetOwn(eMeta, S_event) = pickByPaths(eIn.payload, MINIMAL_EVENT_PATHS).v
  /\ ~(EventModeText \in {S_none, S_minimal, S_full}) =>
       /\ ePc \in {"start", "failed"}
       /\ eCalls = <<>> /\ eRoot = EmptyRoot /\ eLog = <<>>

----------------------------------------------------------------------------
(* Array indexing in the path resolver (checked under SpecPath).           *)

\* The segments of the path at which the walk from pValue stands on an array
ArraySteps ==
  {k \in DOMAIN PathParts(pPath) : IsArray(Walk(pValue, SubSeq(PathParts(pPath), 1, k - 1)))}

\* C27: in simple-form resolution, when the current value is an array,
\* getByPath descends only if the segment parses as a non-negative integer
\* strictly less than the array length, and then to the element at that
\* index; an out-of-bounds, negative, fractional or non-numeric segment makes
\* the resolution fail with undefined.
C27_ArrayIndexing ==
  Resolved /\ ~Contains(pPath, "|") =>
    \A k \in ArraySteps :
      LET parts == PathParts(pPath)
          array == Walk(pValue, SubSeq(parts, 1, k - 1))
          index == Number(parts[k])
      IN  IF index.isInteger /\ index.n >= 0 /\ index.n < Len(array.items)
            THEN pResult = TerminalValue(Walk(array.items[index.n + 1],
                                              SubSeq(parts, k + 1, Len(parts))))
            ELSE pResult = Undefined

\* The path b.1e0.a on {a: ..., b: ["x", {a: true}]}: the segment 1e0 parses
\* as the integer 1, and the walk descends to the second element.
C27_Witness ==
  /\ Resolved
  /\ pPath = <<"b", ".", "1", "e", "0", ".", "a">>
  /\ ArraySteps = {2}
  /\ pResult = Bool(TRUE)

\* The path b.-1 on the same value: a negative index, undefined.
C27_WitnessNegative ==
  /\ Resolved
  /\ pPath = <<"b", ".", "-", "1">>
  /\ ArraySteps = {2}
  /\ pResult = Undefined

----------------------------------------------------------------------------
(* Normalization without sanitization, followed by the strict pass         *)
(* (checked under SpecNormalize).                                          *)

Renormalized == "strict" \in DOMAIN fOut

\* C28: for every input map x, normalizeOutputs(x, 'none') returns x's keys
\* and values unchanged (invalid keys and nested values included), and
\* normalizeOutputs(normalizeOutputs(x, 'none'), 'strict') either throws,
\* exactly when x violates the strict constraints, or returns a map equal to
\* x; strict normalization of a strict-valid map is the identity.
C28_NoneThenStrict ==
  /\ Renormalized =>
       /\ fOut.none = Return(FromMembers(fIn.members))
       /\ ~fOut.strict.ok <=> Offending # {}
       /\ fOut.strict.ok => fOut.strict.v = FromMembers(fIn.members)
  /\ (Normalized /\ fIn.sanitize = "strict" /\ Offending = {}) =>
       fOut = Return(FromMembers(fIn.members))

----------------------------------------------------------------------------
(* Ordering in the emit run (checked under SpecEmit).                      *)

EmitCalled(operation) == \E i \in DOMAIN eCalls : eCalls[i].op = operation

\* The staged directory holds outputs.json, meta.json and every requested file
StagedCompletely ==
  /\ eRoot.meta.exists /\ eRoot.outputs.exists
  /\ eRoot.filesDir.kind = "dir"
  /\ \A i \in DOMAIN parseLines(eIn.files) :
       normalize(parseLines(eIn.files)[i]) \in DOMAIN eRoot.filesDir.files

UploadFailed == eError = Throw("upload failed", Label("uploadArtifact"))

\* C29: in an emit run the artifact upload is invoked only after
\* writeBridgeDirectory has completed for every requested file entry, and the
\* action outputs artifact, outputs-json and meta-json are set only after the
\* upload has succeeded; if output parsing or sanitization, meta parsing,
\* event-mode parsing or staging fails, no upload occurs and none of those
\* outputs is set.
C29_UploadAfterStaging ==
  /\ EmitCalled("uploadArtifact") =>
       /\ StagedCompletely
       /\ \E i, j \in DOMAIN eCalls :
            i < j /\ eCalls[i].op = "writeBridgeDirectory" /\ eCalls[j].op = "uploadArtifact"
  /\ eLog # <<>> =>
       /\ EmitCalled("uploadArtifact") /\ ~UploadFailed
       /\ ePc = "done" /\ eError = NoError
       /\ eCalls[Len(eCalls)].op = "uploadArtifact"
  /\ ePc = "failed" => eLog = <<>>
  /\ (ePc = "failed" /\ ~UploadFailed) => ~EmitCalled("uploadArtifact")

\* A completed run that staged a file, uploaded and set its three outputs.
C29_Witness ==
  /\ ePc = "done"
  /\ parseLines(eIn.files) # <<>>
  /\ StagedCompletely /\ EmitCalled("uploadArtifact")
  /\ Len(eLog) = 3

\* A run whose staging failed on its second file entry after copying the
\* first: nothing was uploaded and no output was set.
C29_WitnessStagingFailed ==
  /\ ePc = "failed"
  /\ EmitCalled("writeBridgeDirectory") /\ ~EmitCalled("uploadArtifact")
  /\ eRoot.meta.exists /\ eRoot.filesDir.kind = "dir" /\ F_report \in DOMAIN eRoot.filesDir.files
  /\ eLog = <<>>

----------------------------------------------------------------------------
\* Ordering inside writeBridgeDirectory

\* The index of the first files entry whose check or copy fails, or one past
\* the end of the list when every entry is copied.
FirstFailing(files) ==
  LET failing == { i \in DOMAIN files :
                     \/ Refused(files[i])
                     \/ ~(resolveInCwd(files[i]) \in DOMAIN Workspace) }
  IN  IF failing = {} THEN Len(files) + 1
      ELSE CHOOSE i \in failing : \A j \in failing : i <= j

\* How the iteration on one entry fails: the absolute test comes first, the
\* escape test second, the copy last.
EntryFailure(filePath) ==
  IF isAbsolute(filePath)
    THEN Throw("files entries must be relative paths", Name(filePath))
  ELSE IF StartsWith(normalize(filePath), DotDot)
    THEN Throw("files entry may not escape workspace", Name(filePath))
  ELSE Throw("cp failed", Name(filePath))

\* C30: writeBridgeDirectory writes outputs.json and meta.json before the
\* first file entry is checked or copied and processes the entries in list
\* order, each one validated (absolute, then escape) before its own copy: a
\* call that fails on entry i leaves outputs.json, meta.json and exactly the
\* copies of the entries before i in place, and a call on a list without a
\* failing entry returns with every entry copied.
C30_WriteOrder ==
  WriteEnded =>
    LET files == bIn.files
        i == FirstFailing(files)
    IN  /\ bRoot.outputs = FileWith(JSONstringify(bOutputs.v))
        /\ bRoot.meta = FileWith(JSONstringify(bIn.meta))
        /\ bRoot.filesDir.kind = "dir"
        /\ DOMAIN bRoot.filesDir.files = { normalize(files[j]) : j \in 1..(i - 1) }
        /\ \A j \in 1..(i - 1) :
             bRoot.filesDir.files[normalize(files[j])] = Workspace[resolveInCwd(files[j])]
        /\ bWrite = IF i > Len(files) THEN Return(Undefined) ELSE EntryFailure(files[i])

\* A call refused on its second entry, the first one copied.
C30_Witness ==
  /\ WriteEnded
  /\ bIn.files = <<F_report, <<"/", "r">> >>
  /\ bWrite = Throw("files entries must be relative paths", Name(<<"/", "r">>))
  /\ bRoot.meta.exists /\ bRoot.outputs.exists
  /\ DOMAIN bRoot.filesDir.files = {F_report}

\* A call refused on its first entry: the two JSON files are there, no copy is.
C30_WitnessFirstEntry ==
  /\ WriteEnded
  /\ bIn.files = << <<".", ".", "/", "r">>, F_report >>
  /\ bWrite = Throw("files entry may not escape workspace", Name(<<".", ".", "/", "r">>))
  /\ bRoot.meta.exists /\ bRoot.outputs.exists
  /\ DOMAIN bRoot.filesDir.files = {}

\* A call whose copy of the second of three entries fails.
C30_WitnessCopyFails ==
  /\ WriteEnded
  /\ bIn.files = <<F_nested, F_missing, F_report>>
  /\ bWrite = Throw("cp failed", Name(F_missing))
  /\ DOMAIN bRoot.filesDir.files = {F_nested}

----------------------------------------------------------------------------
\* Order of the two reads in readBridgeDirectory

\* How the meta.json half of readBridgeDirectory ends on a root: the read, the
\* parse and validateMeta, in that order.
MetaStage(root) ==
  IF ~root.meta.exists THEN Throw("ENOENT", Label("meta.json"))
  ELSE LET meta == parseJsonObject(root.meta.text, "meta.json")
       IN  IF ~meta.ok THEN meta ELSE validateMeta(meta.v)

\* What bridge/outputs.json may be while meta.json stays as it is: missing,
\* not JSON, not an object, or an object with any of the producer's payloads.
OutputsFiles ==
  {NoFile} \cup { FileWith(text) : text \in OutputsTexts \ {<<>>} }

\* The outputs.json on disk would be refused if it were read.
OutputsJsonInvalid ==
  LET parsed == parseJsonObject(bRoot.outputs.text, "outputs.json")
  IN  ~parsed.ok \/ ~normalizeOutputs(parsed.v, "strict").ok

\* C31: readBridgeDirectory parses and validates meta.json before it reads
\* outputs.json: when the meta half fails, its error is the one reported, also
\* when outputs.json is invalid, and the outcome is the same whatever
\* outputs.json holds and whether or not it exists, so outputs.json is neither
\* read nor validated.
C31_MetaBeforeOutputs ==
  (ReadEnded /\ ~MetaStage(bRoot).ok) =>
         /\ bRead = MetaStage(bRoot)
         /\ \A file \in OutputsFiles :
              readBridgeDirectory([bRoot EXCEPT !.outputs = file]) = bRead

\* Both files are invalid and the meta error is the one reported.
C31_Witness ==
  /\ ReadEnded
  /\ ~MetaStage(bRoot).ok
  /\ OutputsJsonInvalid
  /\ ~bRead.ok
  /\ bRead = validateMeta(bIn.meta)

\* A valid meta with an invalid outputs.json: the outputs error is reported.
C31_WitnessOutputsError ==
  /\ ReadEnded
  /\ MetaStage(bRoot).ok
  /\ OutputsJsonInvalid
  /\ ~bRead.ok

----------------------------------------------------------------------------
\* The consumer leaves the bundle as it was read

\* What readBridgeDirectory returns on the artifact the run downloads.
BundleRead ==
  readBridgeDirectory(
    cIn.artifacts[findArtifact(cIn.artifacts, ArtifactNameOf(cIn))].root)

C32_WitnessRejected ==
  /\ cPc = "failed"
  /\ Called("validateConsumerExpectations")
  /\ cError.about = Label("meta")
  /\ cBridge.meta = BundleRead.v.meta

----------------------------------------------------------------------------
\* What the outcome of validateConsumerExpectations depends on

\* The seven meta fields the expectations bind.
BoundMetaFields ==
  <<S_repository, S_workflow_run_id, S_workflow_run_attempt, S_workflow_name,
    S_head_sha, S_pr_number, S_event_name>>

\* Two metas agree on the bound fields: each is present in both or in
\* neither, with the same value.
AgreeOnBound(m1, m2) ==
  \A i \in DOMAIN BoundMetaFields :
    /\ HasOwn(m1, BoundMetaFields[i]) = HasOwn(m2, BoundMetaFields[i])
    /\ Get(m1, BoundMetaFields[i]) = Get(m2, BoundMetaFields[i])

WithoutKey(meta, key) == Obj(SelectSeq(Entries(meta), LAMBDA e : e[1] # key))

\* Metas a producer can put in place of a meta: the event subset, created_at,
\* the schema version and extra metadata changed (among the extra keys an
\* own '__proto__' that carries bound field names), and two that change a
\* bound field.
MetaVariants(meta) ==
  { meta,
    DefineProperty(meta, S_created_at, Str(Other)),
    WithoutKey(meta, S_created_at),
    DefineProperty(meta, S_event, Obj(<< <<S_pr_number, Num(0)>>, <<S_head_sha, Str(ShaB)>> >>)),
    DefineProperty(meta, <<"n", "o", "t", "e">>, Str(ShaB)),
    DefineProperty(meta, S___proto__,
                   Obj(<< <<S_pr_number, Num(0)>>, <<S_event_name, Str(Other)>> >>)),
    DefineProperty(DefineProperty(meta, S_schema_version, Num(1)), S_toString, Str(RepoB)),
    DefineProperty(meta, S_head_sha, Str(ShaB)),
    WithoutKey(meta, S_pr_number) }

\* C33: the outcome of validateConsumerExpectations (accept, or which error)
\* depends only on the expectations and on the seven bound meta fields: a meta
\* that agrees with the validated one on those fields gets the same outcome
\* whatever its event subset, created_at, schema version or extra metadata.
C33_OutcomeDependsOnBoundFields ==
  Validated =>
    \A m \in MetaVariants(vMeta) :
      AgreeOnBound(m, vMeta) => validateConsumerExpectations(m, vExp) = vResult

\* A rejected meta without pr_number, with variants that agree with it on the
\* bound fields and one that does not.
C33_Witness ==
  /\ Validated
  /\ vResult = "PR mismatch"
  /\ ~HasOwn(vMeta, S_pr_number)
  /\ \E m \in MetaVariants(vMeta) : m # vMeta /\ AgreeOnBound(m, vMeta) /\ HasOwn(m, S___proto__)
  /\ \E m \in MetaVariants(vMeta) : ~AgreeOnBound(m, vMeta)

\* An accepted meta.
C33_WitnessAccepted ==
  /\ Validated
  /\ vResult = OK
  /\ \E m \in MetaVariants(vMeta) : m # vMeta /\ AgreeOnBound(m, vMeta) /\ HasOwn(m, S_event)

----------------------------------------------------------------------------
\* The sanitize input of the emit run

\* The run has built its outputs map.
PayloadBuilt == eOutputs # Pending

\* C34: the emit pipeline applies strict output sanitization for every value
\* of the sanitize input except exactly 'none', an empty input counting as
\* strict: unless the input is 'none', every key of the outputs map the run
\* builds matches ^[A-Za-z_][A-Za-z0-9_]*$ and every value is a scalar.
C34_StrictUnlessNone ==
  (PayloadBuilt /\ eIn.sanitize # S_none) =>
    \A i \in DOMAIN Entries(eOutputs) :
      /\ OUTPUT_KEY_RE(Entries(eOutputs)[i][1])
      /\ isScalar(Entries(eOutputs)[i][2])

----------------------------------------------------------------------------
\* Where writeBridgeDirectory copies from and to

\* A relative path stays inside the directory it is resolved against: it is
\* not absolute and, with '.' and inner '..' segments resolved, it names
\* something below that directory.
StaysInside(relative) ==
  LET segments == normalizeSegments(Split(relative, "/"), <<>>, TRUE)
  IN  /\ ~isAbsolute(relative)
      /\ segments # <<>>
      /\ \A i \in DOMAIN segments : segments[i] # DotDot

\* The entries of the list that writeBridgeDirectory copied.
CopiedEntries ==
  { i \in DOMAIN bIn.files : normalize(bIn.files[i]) \in DOMAIN bRoot.filesDir.files }

\* C35: every file that writeBridgeDirectory copies is written to a
\* destination inside <rootDir>/bridge/files and read from a source inside the
\* current working directory: no path under which bridge/files holds a copy
\* resolves outside bridge/files, and the source of no copied entry resolves
\* outside the working directory.
C35_CopiesStayInside ==
  WriteEnded =>
    /\ \A destination \in DOMAIN bRoot.filesDir.files : StaysInside(destination)
    /\ \A i \in CopiedEntries : StaysInside(resolveInCwd(bIn.files[i]))

\* A list whose entries use '.' and '..' segments and stay inside: both are
\* copied, under their normalized paths.
C35_Witness ==
  /\ WriteEnded
  /\ bWrite.ok
  /\ bIn.files = << <<"d", "/", ".", ".", "/", "r", ".", "t">>, <<".", "/", "d", "/", ".", "/", "n">> >>
  /\ DOMAIN bRoot.filesDir.files = {F_report, F_nested}

\* A list whose second entry names an existing file outside the working
\* directory: it is refused and only the first is copied.
C35_WitnessOutside ==
  /\ WriteEnded
  /\ ~bWrite.ok
  /\ \E i \in DOMAIN bIn.files : resolveInCwd(bIn.files[i]) = F_outside
  /\ DOMAIN bRoot.filesDir.files = {F_report}

----------------------------------------------------------------------------
\* Which relative entries writeBridgeDirectory refuses as escaping

\* The first segment of the normalized path is the parent-directory token.
LeadsToParent(filePath) == Split(normalize(filePath), "/")[1] = DotDot

\* C36: writeBridgeDirectory rejects a relative file entry as escaping the
\* workspace if and only if the first segment of its normalized path is '..':
\* for every relative entry the call reaches, the call ends with the 'may not
\* escape workspace' error about that entry exactly when its normalized path
\* leads to the parent directory, so an entry whose first segment merely
\* begins with two dots is accepted.
C36_EscapeIffParentSegment ==
  WriteEnded =>
    \A i \in DOMAIN bIn.files :
      (i <= FirstFailing(bIn.files) /\ ~isAbsolute(bIn.files[i])) =>
        ( bWrite = Throw("files entry may not escape workspace", Name(bIn.files[i]))
          <=> LeadsToParent(bIn.files[i]) )

----------------------------------------------------------------------------
\* Reading a pick back with getByPath

\* A simple-form path: one without '|'.
SimpleForm(pathSpec) == ~Contains(pathSpec, "|")

\* The segment sequence of a path differs from that of every listed path.
Unlisted(q, paths) == \A i \in DOMAIN paths : PathParts(paths[i]) # PathParts(q)

\* C37: for every value v and list ps of simple-form paths, pickByPaths
\* returns an object in which each listed path resolves to what it resolves to
\* in v (a later path never clobbers what an earlier one wrote) and in which
\* every simple-form path whose segment sequence differs from that of every
\* listed path resolves to undefined.
C37_PickReadsBack ==
  (Picked /\ \A i \in DOMAIN fIn.paths : SimpleForm(fIn.paths[i])) =>
    /\ fOut.ok
    /\ \A i \in DOMAIN fIn.paths :
         getByPath(fOut.v, fIn.paths[i]) = getByPath(fIn.value, fIn.paths[i])
    /\ \A q \in PickPaths :
         (SimpleForm(q) /\ Unlisted(q, fIn.paths)) => getByPath(fOut.v, q) = Undefined

----------------------------------------------------------------------------
\* What a consume run needs before it contacts the artifact API

\* One of the four token sources is non-empty.
TokenResolved ==
  \/ cIn.token # <<>>
  \/ cIn.github_token # <<>>
  \/ ~Falsy(cIn.envGithubToken)
  \/ ~Falsy(cIn.envGhToken)

\* The run id (the run_id input, else the triggering workflow_run.id) is a
\* number other than zero.
RunIdUsable == RunIdOf(cIn).isInteger /\ RunIdOf(cIn).n # 0

\* The run has listed the source run's artifacts or downloaded one.
ApiContacted == Called("listWorkflowRunArtifacts") \/ Called("downloadArtifact")

ConsumeStarted == cPc \notin {"start", "unused"}

MissingTokenError == Throw("Missing token for artifact download", Label("token"))
RunIdRequiredError == Throw("run_id is required", Label("run_id"))

\* The statement as the claim words it: without a token or a usable run id
\* the run fails with one of the two errors.
C38_TokenOrRunIdError ==
  /\ ApiContacted => (TokenResolved /\ RunIdUsable)
  /\ (ConsumeStarted /\ ~(TokenResolved /\ RunIdUsable)) =>
       /\ cPc = "failed"
       /\ ~ApiContacted
       /\ cError \in {MissingTokenError, RunIdRequiredError}

\* The error of a run without a token or without a usable run id: the checks
\* come in the order token, fail_on_missing, expose, run id.
FirstPrologueError ==
  IF ~TokenResolved THEN MissingTokenError
  ELSE IF ~getBooleanInput(cIn.fail_on_missing, "fail_on_missing").ok
    THEN getBooleanInput(cIn.fail_on_missing, "fail_on_missing")
  ELSE IF ~parseExposeMode(cIn.expose).ok THEN parseExposeMode(cIn.expose)
  ELSE RunIdRequiredError

\* C38: a consume run issues no artifact listing or download request unless an
\* auth token has been resolved and the run id is a usable non-zero number;
\* otherwise it fails before contacting the artifact API, with the
\* missing-token error when no token resolves and else with the error of an
\* invalid fail_on_missing or expose input if there is one, and the 'run_id is
\* required' error if there is none.
C38_NoRequestWithoutTokenAndRunId ==
  /\ ApiContacted => (TokenResolved /\ RunIdUsable)
  /\ (ConsumeStarted /\ ~(TokenResolved /\ RunIdUsable)) =>
       /\ cPc = "failed"
       /\ ~ApiContacted
       /\ cCalls = <<>>
       /\ cError = FirstPrologueError

\* A run with a token and the run id 0: failed on the run id, nothing called.
C38_Witness ==
  /\ cPc = "failed"
  /\ TokenResolved
  /\ cIn.run_id = <<"0">>
  /\ cError = RunIdRequiredError
  /\ cCalls = <<>>

\* A run without any token, and a run that reached the API.
C38_WitnessNoToken ==
  cPc = "failed" /\ ~TokenResolved /\ RunIdUsable /\ cError = MissingTokenError

C38_WitnessContacted ==
  ApiContacted /\ cIn.run_id = <<>> /\ cIn.payloadRunId = Num(123)

----------------------------------------------------------------------------
(* The resolveAuthToken specification: the four sources are drawn in Init  *)
(* and one action applies resolveAuthToken to them.  An input is a text,   *)
(* empty when not given; an environment variable is absent, empty or set.  *)
(* Each source has a token of its own and may hold the shared one.         *)

TokenOfInput == <<"t", "1">>
TokenOfGithubInput == <<"t", "2">>
TokenOfGithubEnv == <<"t", "3">>
TokenOfGhEnv == <<"t", "4">>

AuthTokenSources ==
  [tokenInput : {<<>>, TokenOfInput, Tok},
   githubTokenInput : {<<>>, TokenOfGithubInput, Tok},
   envGithubToken : {Undefined, Str(<<>>), Str(TokenOfGithubEnv), Str(Tok)},
   envGhToken : {Undefined, Str(<<>>), Str(TokenOfGhEnv), Str(Tok)}]

TokenInit ==
  /\ fIn \in AuthTokenSources
  /\ fOut = Pending
  /\ ValidateIdle /\ PathIdle /\ BundleIdle /\ ConsumeIdle /\ EmitIdle

ResolveToken ==
  /\ fOut = Pending
  /\ "tokenInput" \in DOMAIN fIn
  /\ fOut' = resolveAuthToken(fIn)
  /\ UNCHANGED <<fIn, validateVars, pathVars, bundleVars, consumeVars, emitVars>>

TokenNext == ResolveToken

SpecToken == TokenInit /\ [][TokenNext]_vars

TokenResolutionEnded == fOut \notin {Pending, Unused}

\* The four sources in their fixed order: input 'token', input
\* 'github_token', env GITHUB_TOKEN, env GH_TOKEN.
SourceOrder ==
  <<Str(fIn.tokenInput), Str(fIn.githubTokenInput), fIn.envGithubToken, fIn.envGhToken>>

NonEmptySource(i) == SourceOrder[i].t = "string" /\ SourceOrder[i].s # <<>>

\* C39: resolveAuthToken returns the first non-empty value in the fixed order
\* input 'token', input 'github_token', env GITHUB_TOKEN, env GH_TOKEN, and
\* throws the 'Missing token for artifact download' error if and only if all
\* four are empty or absent; a later source is never used when an earlier one
\* is non-empty.
C39_FirstNonEmptyToken ==
  TokenResolutionEnded =>
    /\ fOut.ok <=> \E i \in DOMAIN SourceOrder : NonEmptySource(i)
    /\ fOut.ok =>
         \E i \in DOMAIN SourceOrder :
           /\ NonEmptySource(i)
           /\ \A j \in 1..(i - 1) : ~NonEmptySource(j)
           /\ fOut.v = SourceOrder[i]
    /\ ~fOut.ok => fOut = Throw("Missing token for artifact download", Label("token"))

\* The github_token input wins over both environment variables while the
\* token input is empty.
C39_Witness ==
  /\ TokenResolutionEnded
  /\ fIn.tokenInput = <<>>
  /\ fIn.envGithubToken = Str(TokenOfGithubEnv)
  /\ fIn.envGhToken = Str(TokenOfGhEnv)
  /\ fOut = Return(Str(TokenOfGithubInput))

\* Nothing but an empty GITHUB_TOKEN: the call throws.
C39_WitnessMissing ==
  /\ TokenResolutionEnded
  /\ fIn = [tokenInput |-> <<>>, githubTokenInput |-> <<>>,
            envGithubToken |-> Str(<<>>), envGhToken |-> Undefined]
  /\ ~fOut.ok

====
